---- MODULE Spec2Model ----
(***************************************************************************)
(* Combat log parsing (clp.py): the line tokenizer, the event record       *)
(* builder and the event-name driven field dispatch of EventParamsParser,  *)
(* together with the batch loop of parse_combat_log_generator.             *)
(*                                                                         *)
(* Python strings are TLA+ strings (Len, SubSeq and \o act on them).       *)
(* Optional values are sequences of length 0 (None) or 1 (Some).           *)
(* Python values stored in a mapping are tagged records [t |-> type, ...]. *)
(***************************************************************************)
EXTENDS Integers, Sequences, FiniteSets, TLC

VARIABLES
    \* parse_combat_log_generator: the file being iterated and the generator
    file,           \* the lines of the combat log file, in order
    pos,            \* number of lines the generator has consumed
    yielded,        \* records yielded so far, in order
    gen,            \* "running", "exhausted" or "raised" (uncaught exception)
    error,          \* the exception that left the generator, "" when none
    \* CombatLogEvent built by the last from_log_line call
    record,         \* None or Some(CombatLogEvent)
    \* EventParamsParser instance (the last one constructed)
    cls,            \* the parser class, which owns the schema tables
    event,          \* self.event: Some(CombatLogEvent record) or a str event name
    params,         \* self.params
    parsed,         \* self.parsed
    frame,          \* locals of the last parse() call at its exit
    outcome,        \* how the last call ended: "none", "returned" or an exception
    calls,          \* number of parse() calls made on the instance
    \* process-wide enum state
    value2member,   \* StrEnumParser subclasses' _value2member_map_ (pseudo members)
    \* one function of the module called on its own
    callee,         \* the function called last, "" when none was
    argument,       \* the argument it was given
    retval,         \* what the call gave: [exc, val]
    \* threads inside StrEnumParser.pseudo_member
    pc,             \* where each thread is in pseudo_member
    local           \* each thread's local variable pseudo

vars == <<file, pos, yielded, gen, error, record, cls, event, params, parsed,
          frame, outcome, calls, value2member, callee, argument, retval,
          pc, local>>

\* the state of a call made on one function
direct == <<callee, argument, retval, pc, local>>

----------------------------------------------------------------------------
(* Optional values *)

None == <<>>
Some(x) == <<x>>
IsNone(o) == o = <<>>
The(o) == o[1]

\* a local variable: v is computed once and F is applied to its value
With(v, F(_)) == CHOOSE r \in {F(w) : w \in {v}} : TRUE

(* Mappings (dict): functions over a finite set of string keys *)

EmptyDict == [k \in {} |-> 0]
Has(d, k) == k \in DOMAIN d
Put(d, k, v) == [x \in DOMAIN d \cup {k} |-> IF x = k THEN v ELSE d[x]]
Pop(d, k) == [x \in DOMAIN d \ {k} |-> d[x]]
Update(d, e) == [x \in DOMAIN d \cup DOMAIN e |-> IF x \in DOMAIN e THEN e[x] ELSE d[x]]
\* d[k] = v in the place of d.setdefault(k, v)
Overwrite(d, k, v) == Put(d, k, v)

SetDefault(d, k, v) == IF Has(d, k) THEN d ELSE Put(d, k, v)

----------------------------------------------------------------------------
(* str methods *)

Ch(s, i) == SubSeq(s, i, i)
From(s, i) == SubSeq(s, i, Len(s))
Chars(s) == {Ch(s, i) : i \in 1..Len(s)}

Whitespace == {" ", "\t", "\n", "\r"}

RECURSIVE LStrip(_, _)
LStrip(s, chars) ==
    IF Len(s) > 0 /\ Ch(s, 1) \in chars THEN LStrip(From(s, 2), chars) ELSE s

RECURSIVE RStrip(_, _)
RStrip(s, chars) ==
    IF Len(s) > 0 /\ Ch(s, Len(s)) \in chars
    THEN RStrip(SubSeq(s, 1, Len(s) - 1), chars) ELSE s

\* s.strip() and s.strip(chars)
strip(s) == RStrip(LStrip(s, Whitespace), Whitespace)
strip_chars(s, chars) == RStrip(LStrip(s, chars), chars)

\* s.startswith(k)
startswith(s, k) == Len(k) <= Len(s) /\ SubSeq(s, 1, Len(k)) = k

\* s.find(sub): the lowest index (1-based) where sub occurs, 0 when absent
find(s, sub) ==
    LET hits == {i \in 1..(Len(s) - Len(sub) + 1) : SubSeq(s, i, i + Len(sub) - 1) = sub}
    IN  IF hits = {} THEN 0 ELSE CHOOSE i \in hits : \A j \in hits : i <= j

\* s.rfind(sub): the highest index (1-based) where sub occurs, 0 when absent
rfind(s, sub) ==
    LET hits == {i \in 1..(Len(s) - Len(sub) + 1) : SubSeq(s, i, i + Len(sub) - 1) = sub}
    IN  IF hits = {} THEN 0 ELSE CHOOSE i \in hits : \A j \in hits : i >= j

\* s.split(sep, 1) and s.rsplit(sep, 1): a list of one or two strings
split1(s, sep) ==
    LET i == find(s, sep)
    IN  IF i = 0 THEN <<s>> ELSE <<SubSeq(s, 1, i - 1), From(s, i + Len(sep))>>

rsplit1(s, sep) ==
    LET i == rfind(s, sep)
    IN  IF i = 0 THEN <<s>> ELSE <<SubSeq(s, 1, i - 1), From(s, i + Len(sep))>>

----------------------------------------------------------------------------
(* int(text) and int(text, 0) *)

DigitChars == "0123456789abcdef"
UpperHex == "ABCDEF"

\* the value of one digit character, or 99 when it is no digit at all
DigitVal(c) ==
    LET lo == {i \in 1..16 : Ch(DigitChars, i) = c}
        up == {i \in 1..6 : Ch(UpperHex, i) = c}
    IN  IF lo # {} THEN (CHOOSE i \in lo : TRUE) - 1
        ELSE IF up # {} THEN (CHOOSE i \in up : TRUE) + 9
        ELSE 99

\* digits with single underscores between them; a leading underscore is
\* allowed only right after a base prefix
DigitsOk(s, base, afterPrefix) ==
    /\ Len(s) > 0
    /\ Ch(s, Len(s)) # "_"
    /\ (Ch(s, 1) = "_" => afterPrefix)
    /\ \A i \in 1..Len(s) :
          \/ DigitVal(Ch(s, i)) < base
          \/ Ch(s, i) = "_" /\ (i > 1 => Ch(s, i - 1) # "_")

RECURSIVE DigitsValue(_, _, _)
DigitsValue(s, base, acc) ==
    IF Len(s) = 0 THEN acc
    ELSE IF Ch(s, 1) = "_" THEN DigitsValue(From(s, 2), base, acc)
    ELSE DigitsValue(From(s, 2), base, acc * base + DigitVal(Ch(s, 1)))

\* an optional sign, then the body: <<sign, body>>
Signed(s) ==
    IF Len(s) > 0 /\ Ch(s, 1) = "-" THEN <<-1, From(s, 2)>>
    ELSE IF Len(s) > 0 /\ Ch(s, 1) = "+" THEN <<1, From(s, 2)>>
    ELSE <<1, s>>

\* int(text): base 10. None stands for ValueError.
int10(text) ==
    With(Signed(strip(text)), LAMBDA sb :
        IF DigitsOk(sb[2], 10, FALSE)
        THEN Some(sb[1] * DigitsValue(sb[2], 10, 0))
        ELSE None)

\* every literal read in base 10, whatever its prefix
DecimalOnly(body) == 10

BasePrefix(body) ==
    IF Len(body) >= 2 /\ Ch(body, 1) = "0"
    THEN CASE Ch(body, 2) \in {"x", "X"} -> 16
           [] Ch(body, 2) \in {"o", "O"} -> 8
           [] Ch(body, 2) \in {"b", "B"} -> 2
           [] OTHER -> 10
    ELSE 10

\* int(text, 0): the base is read from the literal's prefix; a decimal
\* literal with a leading zero is accepted only when it is zero.
\* None stands for ValueError.
int0(text) ==
    With(Signed(strip(text)), LAMBDA sb :
    With(BasePrefix(sb[2]), LAMBDA base :
    With(IF base = 10 THEN sb[2] ELSE From(sb[2], 3), LAMBDA digits :
        IF ~DigitsOk(digits, base, base # 10) THEN None
        ELSE IF base = 10 /\ Ch(digits, 1) = "0" /\ DigitsValue(digits, 10, 0) # 0
        THEN None
        ELSE Some(sb[1] * DigitsValue(digits, base, 0)))))

\* An int of more than 31 bits is held as [sign, halves], halves being
\* <<high, low>> with low the 16 low bits of the magnitude.
HalfWord == 65536

Wide(n) ==
    IF n >= 0 THEN [sign |-> 1, halves |-> <<n \div HalfWord, n % HalfWord>>]
    ELSE [sign |-> -1, halves |-> <<(-n) \div HalfWord, (-n) % HalfWord>>]

RECURSIVE WideValue(_, _, _)
WideValue(s, base, acc) ==
    IF Len(s) = 0 THEN acc
    ELSE IF Ch(s, 1) = "_" THEN WideValue(From(s, 2), base, acc)
    ELSE WideValue(From(s, 2), base,
             <<acc[1] * base + (acc[2] * base + DigitVal(Ch(s, 1))) \div HalfWord,
               (acc[2] * base + DigitVal(Ch(s, 1))) % HalfWord>>)

\* int(text, 0) as int0 reads it, the value held wide. None stands for
\* ValueError.
int0w(text) ==
    With(Signed(strip(text)), LAMBDA sb :
    With(BasePrefix(sb[2]), LAMBDA base :
    With(IF base = 10 THEN sb[2] ELSE From(sb[2], 3), LAMBDA digits :
        IF ~DigitsOk(digits, base, base # 10) THEN None
        ELSE IF /\ base = 10
                /\ Ch(digits, 1) = "0"
                /\ WideValue(digits, 10, <<0, 0>>) # <<0, 0>>
        THEN None
        ELSE Some([sign |-> IF WideValue(digits, base, <<0, 0>>) = <<0, 0>>
                            THEN 1 ELSE sb[1],
                   halves |-> WideValue(digits, base, <<0, 0>>)]))))

----------------------------------------------------------------------------
(* StrEnumParser and its subclasses *)

StrEnumClasses == {"EnvironmentalType", "MissType", "AuraType", "FailedType"}

Member(c, n, v) == [t |-> c, name |-> n, v |-> v]

EnvironmentalType ==
    <<Member("EnvironmentalType", "DROWNING", "DROWNING"),
      Member("EnvironmentalType", "FALLING", "FALLING"),
      Member("EnvironmentalType", "FATIGUE", "FATIGUE"),
      Member("EnvironmentalType", "FIRE", "FIRE"),
      Member("EnvironmentalType", "LAVA", "LAVA"),
      Member("EnvironmentalType", "SLIME", "SLIME")>>

MissType ==
    <<Member("MissType", "MISS", "MISS"),
      Member("MissType", "DODGE", "DODGE"),
      Member("MissType", "PARRY", "PARRY"),
      Member("MissType", "IMMUNE", "IMMUNE"),
      Member("MissType", "ABSORB", "ABSORB"),
      Member("MissType", "BLOCK", "BLOCK"),
      Member("MissType", "DEFLECT", "DEFLECT"),
      Member("MissType", "EVADE", "EVADE"),
      Member("MissType", "REFLECT", "REFLECT"),
      Member("MissType", "RESIST", "RESIST")>>

AuraType ==
    <<Member("AuraType", "BUFF", "BUFF"),
      Member("AuraType", "DEBUFF", "DEBUFF")>>

FailedType ==
    <<Member("FailedType", "INTERRUPTED", "Interrupted"),
      Member("FailedType", "NOT_RECOVERED", "Not yet recovered"),
      Member("FailedType", "NO_TARGET", "No target"),
      Member("FailedType", "INVALID_TARGET", "Invalid target"),
      Member("FailedType", "ITEM_NOT_READY", "Item is not ready yet"),
      Member("FailedType", "ACTION_IN_PROGRESS", "Another action is in progress"),
      Member("FailedType", "OUT_OF_RANGE", "Out of range")>>

EnumMembers(c) ==
    CASE c = "EnvironmentalType" -> EnvironmentalType
      [] c = "MissType" -> MissType
      [] c = "AuraType" -> AuraType
      [] c = "FailedType" -> FailedType

\* _value2member_map_ of every StrEnumParser subclass right after import
DeclaredMembers ==
    [c \in StrEnumClasses |->
        LET ms == EnumMembers(c)
        IN  [v \in {ms[i].v : i \in 1..Len(ms)} |->
                ms[CHOOSE i \in 1..Len(ms) : ms[i].v = v]]]

LowerLetters == "abcdefghijklmnopqrstuvwxyz"
UpperLetters == "ABCDEFGHIJKLMNOPQRSTUVWXYZ"

IsDigit(c) == DigitVal(c) < 10
IsWordChar(c) ==
    \/ IsDigit(c)
    \/ c = "_"
    \/ \E i \in 1..26 : Ch(LowerLetters, i) = c \/ Ch(UpperLetters, i) = c

upper_char(c) ==
    LET lo == {i \in 1..26 : Ch(LowerLetters, i) = c}
    IN  IF lo = {} THEN c ELSE Ch(UpperLetters, CHOOSE i \in lo : TRUE)

\* re.sub(r'\W+', '_', s).upper() from left to right; inRun says that the
\* previous character was already replaced
RECURSIVE SubNonWord(_, _)
SubNonWord(s, inRun) ==
    IF Len(s) = 0 THEN ""
    ELSE IF IsWordChar(Ch(s, 1)) THEN upper_char(Ch(s, 1)) \o SubNonWord(From(s, 2), FALSE)
    ELSE IF inRun THEN SubNonWord(From(s, 2), TRUE)
    ELSE "_" \o SubNonWord(From(s, 2), TRUE)

isidentifier(s) ==
    /\ Len(s) > 0
    /\ ~IsDigit(Ch(s, 1))
    /\ \A i \in 1..Len(s) : IsWordChar(Ch(s, i))

\* StrEnumParser.value_to_name: None stands for ValueError
value_to_name(value) ==
    LET guard == IF Len(value) > 0 /\ IsDigit(Ch(value, 1)) THEN "_" ELSE ""
    IN  With(guard \o SubNonWord(value, FALSE), LAMBDA name :
            IF isidentifier(name) THEN Some(name) ELSE None)

\* StrEnumParser.pseudo_member(value) on the class map m:
\* [exc, member, map]
pseudo_member(c, value, m) ==
    IF Has(m, value) THEN [exc |-> "", member |-> m[value], map |-> m]
    ELSE With(value_to_name(value), LAMBDA name :
             IF IsNone(name)
             THEN [exc |-> "ValueError", member |-> Member(c, "", value), map |-> m]
             ELSE LET pseudo == Member(c, The(name), value)
                  IN  With(SetDefault(m, value, pseudo), LAMBDA m2 :
                          [exc |-> "", member |-> m2[value], map |-> m2]))

\* cls(value): Enum lookup by value, _missing_ on a miss
StrEnumCall(c, value, m) ==
    IF Has(m, value) THEN [exc |-> "", member |-> m[value], map |-> m]
    ELSE pseudo_member(c, value, m)

----------------------------------------------------------------------------
(* IntEnumParser / IntFlagParser and their subclasses *)

PowerTypeValues == -2..6

SchoolFlagAllBits == 255

PHYSICAL == 1
HOLY == 2
FIRE == 4
FLAMESTRIKE == FIRE + PHYSICAL

RECURSIVE Pow2(_)
Pow2(n) == IF n = 0 THEN 1 ELSE 2 * Pow2(n - 1)

\* int.bit_length of a positive integer
RECURSIVE bit_length(_)
bit_length(n) == IF n = 0 THEN 0 ELSE 1 + bit_length(n \div 2)

Max(a, b) == IF a >= b THEN a ELSE b

\* IntFlag(value) under the KEEP boundary: every integer is accepted, a
\* negative one is read as the complement within the known bits
IntFlagCall(value, all_bits) ==
    IF value >= 0 THEN value
    ELSE IF value >= -all_bits - 1 THEN all_bits + 1 + value
    ELSE Max(all_bits + 1, Pow2(bit_length(-value))) + value

\* bool(arg) in the place of is_not_nil: every non-empty string is true
Truthy(arg) == arg # ""

\* is_not_nil
is_not_nil(arg) == arg # "nil"

Casters ==
    {"int", "str", "is_not_nil", "SchoolFlag.from_literal", "PowerType.from_literal"}
    \cup StrEnumClasses

\* caster(param) with the enum maps v2m: [exc, val, v2m]
Cast(caster, param, v2m) ==
    LET ok(val) == [exc |-> "", val |-> val, v2m |-> v2m]
        bad == [exc |-> "ValueError", val |-> [t |-> "NoneType"], v2m |-> v2m]
    IN  CASE caster = "int" ->
               With(int10(param), LAMBDA n :
                   IF IsNone(n) THEN bad ELSE ok([t |-> "int", v |-> The(n)]))
          [] caster = "str" -> ok([t |-> "str", v |-> param])
          [] caster = "is_not_nil" -> ok([t |-> "bool", v |-> is_not_nil(param)])
          [] caster = "SchoolFlag.from_literal" ->
               With(int0(param), LAMBDA n :
                   IF IsNone(n) THEN bad
                   ELSE ok([t |-> "SchoolFlag", v |-> IntFlagCall(The(n), SchoolFlagAllBits)]))
          [] caster = "PowerType.from_literal" ->
               With(int0(param), LAMBDA n :
                   IF IsNone(n) \/ The(n) \notin PowerTypeValues THEN bad
                   ELSE ok([t |-> "PowerType", v |-> The(n)]))
          [] caster \in StrEnumClasses ->
               With(StrEnumCall(caster, param, v2m[caster]), LAMBDA r :
                   IF r.exc # "" THEN bad
                   ELSE [exc |-> "", val |-> r.member,
                         v2m |-> [v2m EXCEPT ![caster] = r.map]])

----------------------------------------------------------------------------
(* EventParamsParser: field schemas (FieldsDict) and the schema tables.    *)
(* A FieldsDict is the sequence of its (name, caster) items in declared    *)
(* order; a table is the sequence of its (key, value) items.               *)

Field(n, c) == [name |-> n, caster |-> c]
Entry(k, f) == [key |-> k, fields |-> f]
Twin(k, p, f) == [key |-> k, prefix |-> p, suffix |-> f]

\* Prefix parsers
SpellParser ==
    <<Field("spellId", "int"),
      Field("spellName", "str"),
      Field("spellSchool", "SchoolFlag.from_literal")>>
EnvParser ==
    <<Field("environmentalType", "EnvironmentalType")>>
\* Suffix parsers
\* a damage schema whose school field takes the name of the prefix-part's
DamageSchoolClash ==
    <<Field("amount", "int"),
      Field("overkill", "int"),
      Field("spellSchool", "SchoolFlag.from_literal"),
      Field("resisted", "int"),
      Field("blocked", "int"),
      Field("absorbed", "int"),
      Field("critical", "is_not_nil"),
      Field("glancing", "is_not_nil"),
      Field("crushing", "is_not_nil")>>

DamageParser ==
    <<Field("amount", "int"),
      Field("overkill", "int"),
      Field("school", "SchoolFlag.from_literal"),
      Field("resisted", "int"),
      Field("blocked", "int"),
      Field("absorbed", "int"),
      Field("critical", "is_not_nil"),
      Field("glancing", "is_not_nil"),
      Field("crushing", "is_not_nil")>>
MissParser ==
    <<Field("missType", "MissType"),
      Field("amountMissed", "int")>>
HealParser ==
    <<Field("amount", "int"),
      Field("overhealing", "int"),
      Field("absorbed", "int"),
      Field("critical", "is_not_nil")>>
EnergizeParser ==
    <<Field("amount", "int"),
      Field("powerType", "PowerType.from_literal")>>
DrainParser ==
    <<Field("amount", "int"),
      Field("powerType", "PowerType.from_literal"),
      Field("extraAmount", "int")>>
SpellBlockParser ==
    <<Field("extraSpellID", "int"),
      Field("extraSpellName", "str"),
      Field("extraSchool", "SchoolFlag.from_literal"),
      Field("auraType", "AuraType")>>
ExtraAttackParser ==
    <<Field("amount", "int")>>
AuraParser ==
    <<Field("auraType", "AuraType")>>
AuraDoseParser ==
    <<Field("auraType", "AuraType"),
      Field("amount", "int")>>
CastFailedParser ==
    <<Field("failedType", "FailedType")>>
\* Special parsers
EnchantParser ==
    <<Field("spellName", "str"),
      Field("itemID", "int"),
      Field("itemName", "str")>>

\* Combo-parsers
prefix_parsers ==
    <<Entry("SWING", <<>>),
      Entry("RANGE", SpellParser),
      Entry("SPELL", SpellParser),
      Entry("SPELL_PERIODIC", SpellParser),
      Entry("SPELL_BUILDING", SpellParser),
      Entry("ENVIRONMENTAL", EnvParser)>>

suffix_parsers ==
    <<Entry("_DAMAGE", DamageParser),
      Entry("_MISSED", MissParser),
      Entry("_HEAL", HealParser),
      Entry("_HEAL_ABSORBED", <<>>),
      Entry("_ABSORBED", <<>>),
      Entry("_ENERGIZE", EnergizeParser),
      Entry("_DRAIN", DrainParser),
      Entry("_LEECH", DrainParser),
      Entry("_INTERRUPT", SpellBlockParser),
      Entry("_DISPEL", SpellBlockParser),
      Entry("_DISPEL_FAILED", SpellBlockParser),
      Entry("_STOLEN", SpellBlockParser),
      Entry("_EXTRA_ATTACKS", ExtraAttackParser),
      Entry("_AURA_APPLIED", AuraParser),
      Entry("_AURA_REMOVED", AuraParser),
      Entry("_AURA_APPLIED_DOSE", AuraDoseParser),
      Entry("_AURA_REMOVED_DOSE", AuraDoseParser),
      Entry("_AURA_REFRESH", AuraParser),
      Entry("_AURA_BROKEN", AuraParser),
      Entry("_AURA_BROKEN_SPELL", SpellBlockParser),
      Entry("_CAST_START", <<>>),
      Entry("_CAST_SUCCESS", <<>>),
      Entry("_CAST_FAILED", CastFailedParser),
      Entry("_INSTAKILL", <<>>),
      Entry("_DURABILITY_DAMAGE", <<>>),
      Entry("_DURABILITY_DAMAGE_ALL", <<>>),
      Entry("_CREATE", <<>>),
      Entry("_SUMMON", <<>>),
      Entry("_RESURRECT", <<>>)>>

special_parsers ==
    <<Twin("DAMAGE_SPLIT", SpellParser, DamageParser),
      Twin("DAMAGE_SHIELD", SpellParser, DamageParser),
      Twin("DAMAGE_SHIELD_MISSED", SpellParser, MissParser),
      Twin("ENCHANT_APPLIED", EnchantParser, <<>>),
      Twin("ENCHANT_REMOVED", EnchantParser, <<>>),
      Twin("PARTY_KILL", <<>>, <<>>),
      Twin("UNIT_DIED", <<>>, <<>>),
      Twin("UNIT_DESTROYED", <<>>, <<>>),
      Twin("UNIT_DISSIPATES", <<>>, <<>>)>>

\* A subclass that overrides the three ClassVar tables with a schema whose
\* prefix-part and suffix-part share field names (a schema-authoring defect).
SyntheticPrefix ==
    <<Entry("DUP", <<Field("first", "str"), Field("second", "int")>>),
      Entry("DUP_LONG", <<Field("first", "str")>>)>>
SyntheticSuffix ==
    <<Entry("_TAIL", <<Field("third", "str"), Field("first", "int"), Field("fourth", "str")>>),
      Entry("_OK", <<Field("third", "int")>>),
      Entry("_LONG_TAIL", <<Field("second", "int")>>),
      Entry("_LONGER", <<Field("fifth", "str")>>)>>
SyntheticSpecial ==
    <<Twin("TWIN", <<Field("first", "int")>>, <<Field("first", "int")>>),
      Twin("DUPLEX", <<Field("first", "str")>>, <<Field("second", "str")>>)>>

ParserClasses == {"EventParamsParser", "SyntheticParser"}

PrefixTable(c) == IF c = "EventParamsParser" THEN prefix_parsers ELSE SyntheticPrefix
SuffixTable(c) == IF c = "EventParamsParser" THEN suffix_parsers ELSE SyntheticSuffix
SpecialTable(c) == IF c = "EventParamsParser" THEN special_parsers ELSE SyntheticSpecial

Keys(table) == [i \in 1..Len(table) |-> table[i].key]

\* dict.get(key, None) on a ParserDict
Get(table, key) ==
    LET hit == {i \in 1..Len(table) : table[i].key = key}
    IN  IF hit = {} THEN None ELSE Some(table[CHOOSE i \in hit : TRUE].fields)

\* max(seq, key=len): the first element of maximal length
MaxByLen(seq) ==
    seq[CHOOSE i \in 1..Len(seq) :
            /\ \A j \in 1..Len(seq) : Len(seq[j]) <= Len(seq[i])
            /\ \A j \in 1..(i - 1) : Len(seq[j]) < Len(seq[i])]

----------------------------------------------------------------------------
(* CombatLogEvent and Unit values *)

NoneValue == [t |-> "NoneType"]
StrValue(x) == [t |-> "str", v |-> x]
ListValue(x) == [t |-> "list", v |-> x]
FloatValue(x) == [t |-> "float", v |-> x]

Unit(guid, name, flags) == [guid |-> guid, name |-> name, flags |-> flags]

\* CombatLogEvent(timestamp, name, source=None, dest=None, params=[]);
\* the timestamp is kept in milliseconds
CombatLogEvent(timestamp, name, source, dest, ps) ==
    [t |-> "CombatLogEvent", timestamp |-> timestamp, name |-> name,
     source |-> source, dest |-> dest, params |-> ps]

UnitValue(u) == IF IsNone(u) THEN NoneValue ELSE [t |-> "dict", v |-> The(u)]

\* CombatLogEvent.dict(): dataclasses.asdict
EventDict(e) ==
    [k \in {"timestamp", "name", "source", "dest", "params"} |->
        CASE k = "timestamp" -> FloatValue(e.timestamp)
          [] k = "name" -> StrValue(e.name)
          [] k = "source" -> UnitValue(e.source)
          [] k = "dest" -> UnitValue(e.dest)
          [] k = "params" -> ListValue(e.params)]

BaseKeys == {"timestamp", "name", "source", "dest", "params"}

----------------------------------------------------------------------------
(* EventParamsParser.parse *)

\* the keys of the prefix table that the event name starts with, in table order
PrefixMatch(table, name) == SelectSeq(Keys(table), LAMBDA k : startswith(name, k))

\* prefix_match[0] in the place of max(prefix_match, key=len)
FirstPrefix(prefix_match) == prefix_match[1]

\* prefix = max(prefix_match, key=len)
ChoosePrefix(prefix_match) == MaxByLen(prefix_match)

\* the special table is searched for a key equal to the event name
SpecialLookup(table, name) ==
    LET hit == {i \in 1..Len(table) : table[i].key = name}
    IN  IF hit = {} THEN <<None, None>>
        ELSE LET e == table[CHOOSE i \in hit : \A j \in hit : i <= j]
             IN  <<Some(e.prefix), Some(e.suffix)>>

\* a search that also reads the special table when the suffix lookup failed
ResolveWithFallback(c, name) ==
    With(PrefixMatch(PrefixTable(c), name), LAMBDA prefix_match :
    With(SpecialLookup(SpecialTable(c), name), LAMBDA twin :
        IF Len(prefix_match) > 0
        THEN With(ChoosePrefix(prefix_match), LAMBDA prefix :
             With(From(name, Len(prefix) + 1), LAMBDA suffix :
                 IF IsNone(Get(SuffixTable(c), suffix))
                 THEN [prefix_match |-> prefix_match, prefix |-> Some(prefix),
                       suffix |-> Some(suffix),
                       prefix_fields |-> twin[1], suffix_fields |-> twin[2]]
                 ELSE [prefix_match |-> prefix_match, prefix |-> Some(prefix),
                       suffix |-> Some(suffix),
                       prefix_fields |-> Get(PrefixTable(c), prefix),
                       suffix_fields |-> Get(SuffixTable(c), suffix)]))
        ELSE [prefix_match |-> prefix_match, prefix |-> None, suffix |-> None,
              prefix_fields |-> twin[1], suffix_fields |-> twin[2]]))

\* Search for the prefix-suffix pair with the longest prefix:
\* the locals prefix_match, prefix, suffix, prefix_fields, suffix_fields
Resolve(c, name) ==
    With(PrefixMatch(PrefixTable(c), name), LAMBDA prefix_match :
        IF Len(prefix_match) > 0
        THEN With(ChoosePrefix(prefix_match), LAMBDA prefix :
             With(From(name, Len(prefix) + 1), LAMBDA suffix :
                 [prefix_match |-> prefix_match,
                  prefix |-> Some(prefix),
                  suffix |-> Some(suffix),
                  prefix_fields |-> Get(PrefixTable(c), prefix),
                  suffix_fields |-> Get(SuffixTable(c), suffix)]))
        ELSE With(SpecialLookup(SpecialTable(c), name), LAMBDA twin :
                 [prefix_match |-> prefix_match,
                  prefix |-> None,
                  suffix |-> None,
                  prefix_fields |-> twin[1],
                  suffix_fields |-> twin[2]]))

\* a decoding loop without the duplicate check
NeverDuplicate(acc, name) == FALSE

\* the duplicate check of the decoding loop
IsDuplicate(acc, name) == Has(acc, name)

\* itertools.zip_longest in the place of zip: a field without a param is
\* given None
RECURSIVE ZipLongest(_, _, _, _, _)
ZipLongest(parsers, ps, i, acc, v2m) ==
    IF i > Len(parsers)
    THEN [exc |-> "", parsed |-> acc, v2m |-> v2m,
          parsed_count |-> IF Len(ps) < i - 1 THEN Len(ps) ELSE i - 1]
    ELSE IF IsDuplicate(acc, parsers[i].name)
    THEN [exc |-> "ParsingError", parsed |-> acc, v2m |-> v2m, parsed_count |-> i - 1]
    ELSE IF i > Len(ps)
    THEN ZipLongest(parsers, ps, i + 1, Put(acc, parsers[i].name, NoneValue), v2m)
    ELSE With(Cast(parsers[i].caster, ps[i], v2m), LAMBDA r :
             IF r.exc # ""
             THEN [exc |-> r.exc, parsed |-> acc, v2m |-> v2m, parsed_count |-> i - 1]
             ELSE ZipLongest(parsers, ps, i + 1, Put(acc, parsers[i].name, r.val), r.v2m))

\* for (name, caster), param in zip(parsers, params): from the i-th pair on.
\* [exc, parsed, v2m, parsed_count]
RECURSIVE ZipLoop(_, _, _, _, _)
ZipLoop(parsers, ps, i, acc, v2m) ==
    IF i > Len(parsers) \/ i > Len(ps)
    THEN [exc |-> "", parsed |-> acc, v2m |-> v2m, parsed_count |-> i - 1]
    ELSE IF IsDuplicate(acc, parsers[i].name)
    THEN [exc |-> "ParsingError", parsed |-> acc, v2m |-> v2m, parsed_count |-> i - 1]
    ELSE With(Cast(parsers[i].caster, ps[i], v2m), LAMBDA r :
             IF r.exc # ""
             THEN [exc |-> r.exc, parsed |-> acc, v2m |-> v2m, parsed_count |-> i - 1]
             ELSE ZipLoop(parsers, ps, i + 1, Put(acc, parsers[i].name, r.val), r.v2m))

\* the leftover list stored whether or not it is empty
LeftoverAlways(acc, params_left) == Put(acc, "params", ListValue(params_left))

\* Check if some params left unparsed
Leftover(acc, params_left) ==
    IF Len(params_left) > 0
    THEN Put(acc, "params", ListValue(params_left))
    ELSE Pop(acc, "params")

\* the base record written to self.parsed on entry
\* an output map that starts empty at every call
EnterFresh(ev, acc) ==
    IF ev.t = "CombatLogEvent" THEN Update(EmptyDict, EventDict(ev))
    ELSE SetDefault(EmptyDict, "name", StrValue(ev.v))

EnterParsed(ev, acc) ==
    IF ev.t = "CombatLogEvent" THEN Update(acc, EventDict(ev))
    ELSE SetDefault(acc, "name", StrValue(ev.v))

EventName(ev) == IF ev.t = "CombatLogEvent" THEN ev.name ELSE ev.v

\* EventParamsParser.parse(params) on an instance of class c with fields
\* (ev, selfparams, acc): [exc, parsed, v2m, frame]
Locals(name, ps, res, count, left) ==
    [event |-> name, params |-> ps,
     prefix_match |-> res.prefix_match, prefix |-> res.prefix,
     suffix |-> res.suffix, prefix_fields |-> res.prefix_fields,
     suffix_fields |-> res.suffix_fields,
     parsed_count |-> count, params_left |-> left]

parse(c, ev, selfparams, acc, arg, v2m) ==
    With(EventName(ev), LAMBDA name :
    With(EnterParsed(ev, acc), LAMBDA entered :
    With(IF IsNone(arg) THEN selfparams ELSE The(arg), LAMBDA ps :
    With(Resolve(c, name), LAMBDA res :
        IF IsNone(res.prefix_fields) \/ IsNone(res.suffix_fields)
        THEN [exc |-> "ParsingLookupError", parsed |-> entered, v2m |-> v2m,
              frame |-> Locals(name, ps, res, 0, <<>>)]
        ELSE With(The(res.prefix_fields) \o The(res.suffix_fields), LAMBDA parsers :
             With(ZipLoop(parsers, ps, 1, entered, v2m), LAMBDA z :
             With(SubSeq(ps, z.parsed_count + 1, Len(ps)), LAMBDA params_left :
                 IF z.exc # ""
                 THEN [exc |-> z.exc, parsed |-> z.parsed, v2m |-> z.v2m,
                       frame |-> Locals(name, ps, res, z.parsed_count, <<>>)]
                 ELSE [exc |-> "", parsed |-> Leftover(z.parsed, params_left),
                       v2m |-> z.v2m,
                       frame |-> Locals(name, ps, res, z.parsed_count, params_left)])))))))

----------------------------------------------------------------------------
(* The line tokenizer: shlex.shlex(eventstr, posix=True) with               *)
(* whitespace = ',' and whitespace_split = True, iterated to the end.       *)

ShlexWhitespace == {","}
\* the double quote taken for an ordinary character
SingleQuoteOnly == {"'"}

ShlexQuotes == {"'", "\""}
ShlexEscape == {"\\"}
ShlexEscapedQuotes == {"\""}
ShlexCommenters == {"#"}

\* instream.readline() from position i: the position after the next newline
AfterLine(s, i) ==
    LET nl == {j \in i..Len(s) : Ch(s, j) = "\n"}
    IN  IF nl = {} THEN Len(s) + 1 ELSE (CHOOSE j \in nl : \A k \in nl : j <= k) + 1

\* the first position from i on whose character is in stops, Len(s) + 1
\* when there is none
NextStop(s, i, stops) ==
    LET hit == {j \in i..Len(s) : Ch(s, j) \in stops}
    IN  IF hit = {} THEN Len(s) + 1 ELSE CHOOSE j \in hit : \A k \in hit : j <= k

\* shlex.read_token from position i: state is shlex.state (None is written
\* "eof"), token, quoted and esc (escapedstate) are the locals of the call.
\* A run of characters that are only appended to the token (inside quotes,
\* or inside a word) is taken in one step.
\* [exc, token (None is eof), i, state]: the token returned, the position
\* and the state the next call starts from
RECURSIVE read_token(_, _, _, _, _, _)
read_token(s, i, state, token, quoted, esc) ==
    LET nextchar == IF i <= Len(s) THEN Ch(s, i) ELSE ""
        \* break: an empty token that was never quoted is eof
        result(j, st) ==
            [exc |-> "", token |-> IF token # "" \/ quoted THEN Some(token) ELSE None,
             i |-> j, state |-> st]
        raise == [exc |-> "ValueError", token |-> None, i |-> i, state |-> state]
    IN  CASE state = "eof" -> [exc |-> "", token |-> None, i |-> i, state |-> state]
          [] state = " " ->
               IF nextchar = "" THEN result(i, "eof")
               ELSE IF nextchar \in ShlexWhitespace
               THEN IF token # "" \/ quoted THEN result(i + 1, " ")
                    ELSE read_token(s, i + 1, " ", token, quoted, esc)
               ELSE IF nextchar \in ShlexCommenters
               THEN read_token(s, AfterLine(s, i + 1), " ", token, quoted, esc)
               ELSE IF nextchar \in ShlexEscape
               THEN read_token(s, i + 1, nextchar, token, quoted, "a")
               ELSE IF nextchar \in ShlexQuotes
               THEN read_token(s, i + 1, nextchar, token, quoted, esc)
               ELSE read_token(s, i + 1, "a", nextchar, quoted, esc)
          [] state \in ShlexQuotes ->
               LET stop == NextStop(s, i, {state} \cup
                               (IF state \in ShlexEscapedQuotes THEN ShlexEscape ELSE {}))
               IN  IF nextchar = "" THEN raise
                   ELSE IF nextchar = state
                   THEN read_token(s, i + 1, "a", token, TRUE, esc)
                   ELSE IF nextchar \in ShlexEscape /\ state \in ShlexEscapedQuotes
                   THEN read_token(s, i + 1, nextchar, token, TRUE, state)
                   ELSE read_token(s, stop, state, token \o SubSeq(s, i, stop - 1), TRUE, esc)
          [] state \in ShlexEscape ->
               IF nextchar = "" THEN raise
               ELSE IF esc \in ShlexQuotes /\ nextchar # state /\ nextchar # esc
               THEN read_token(s, i + 1, esc, (token \o state) \o nextchar, quoted, esc)
               ELSE read_token(s, i + 1, esc, token \o nextchar, quoted, esc)
          [] state = "a" ->
               LET stop == NextStop(s, i, ShlexWhitespace \cup ShlexCommenters
                                            \cup ShlexQuotes \cup ShlexEscape)
               IN  IF nextchar = "" THEN result(i, "eof")
                   ELSE IF nextchar \in ShlexWhitespace
                   THEN IF token # "" \/ quoted THEN result(i + 1, " ")
                        ELSE read_token(s, i + 1, " ", token, quoted, esc)
                   ELSE IF nextchar \in ShlexCommenters
                   THEN IF token # "" \/ quoted THEN result(AfterLine(s, i + 1), " ")
                        ELSE read_token(s, AfterLine(s, i + 1), " ", token, quoted, esc)
                   ELSE IF nextchar \in ShlexQuotes
                   THEN read_token(s, i + 1, nextchar, token, quoted, esc)
                   ELSE IF nextchar \in ShlexEscape
                   THEN read_token(s, i + 1, nextchar, token, quoted, "a")
                   ELSE read_token(s, stop, "a", token \o SubSeq(s, i, stop - 1), quoted, esc)

\* iteration over the splitter: tokens are read until eof. [exc, tokens]
RECURSIVE Tokens(_, _, _, _)
Tokens(s, i, state, out) ==
    With(read_token(s, i, state, "", FALSE, " "), LAMBDA r :
        IF r.exc # "" THEN [exc |-> r.exc, tokens |-> out]
        ELSE IF IsNone(r.token) THEN [exc |-> "", tokens |-> out]
        ELSE Tokens(s, r.i, r.state, Append(out, The(r.token))))

\* eventstr.split(','): every text between two commas is a field
PlainSplit(s) ==
    LET commas == {i \in 1..Len(s) : Ch(s, i) = ","} \cup {0, Len(s) + 1}
        ends == [k \in 1..Cardinality(commas) |->
                    CHOOSE p \in commas : Cardinality({q \in commas : q < p}) = k - 1]
    IN  [exc |-> "",
         tokens |-> [k \in 1..(Len(ends) - 1) |-> SubSeq(s, ends[k] + 1, ends[k + 1] - 1)]]

\* list(splitter)
shlex_split(s) == Tokens(s, 1, " ", <<>>)

----------------------------------------------------------------------------
(* datetime.strptime('1970 ' + datetimestr, '%Y %m/%d %H:%M:%S')           *)

\* a directive of one or two digits whose value lies in lo..hi
TwoDigits(s, lo, hi) ==
    IF Len(s) \in {1, 2} /\ \A i \in 1..Len(s) : IsDigit(Ch(s, i))
    THEN With(DigitsValue(s, 10, 0), LAMBDA n :
             IF n >= lo /\ n <= hi THEN Some(n) ELSE None)
    ELSE None

\* %d also takes a space-padded day
DayDigits(s) ==
    IF Len(s) = 2 /\ Ch(s, 1) = " " THEN TwoDigits(From(s, 2), 1, 9)
    ELSE TwoDigits(s, 1, 31)

DaysInMonth == <<31, 28, 31, 30, 31, 30, 31, 31, 30, 31, 30, 31>>

RECURSIVE DaysBefore(_)
DaysBefore(month) ==
    IF month = 1 THEN 0 ELSE DaysBefore(month - 1) + DaysInMonth[month - 1]

\* the first whitespace position of s from position i on, 0 when there is none
FirstSpace(s, i) ==
    LET ws == {j \in i..Len(s) : Ch(s, j) \in Whitespace}
    IN  IF ws = {} THEN 0 ELSE CHOOSE j \in ws : \A k \in ws : j <= k

\* seconds from the start of 1970 to the date and time that datetimestr
\* names; None stands for ValueError
\* %H:%M:%S on the text after the day: seconds since midnight
ClockSeconds(clock) ==
    With(find(clock, ":"), LAMBDA c1 :
    With(From(clock, c1 + 1), LAMBDA rest :
    With(find(rest, ":"), LAMBDA c2 :
    With(TwoDigits(SubSeq(clock, 1, c1 - 1), 0, 23), LAMBDA hour :
    With(TwoDigits(SubSeq(rest, 1, c2 - 1), 0, 59), LAMBDA minute :
    With(TwoDigits(From(rest, c2 + 1), 0, 59), LAMBDA second :
        IF c1 = 0 \/ IsNone(hour) \/ c2 = 0 \/ IsNone(minute) \/ IsNone(second)
        THEN None
        ELSE Some((The(hour) * 60 + The(minute)) * 60 + The(second))))))))

\* %m/%d on the text before the clock: days since the start of the year
DateDays(monthstr, daystr) ==
    With(TwoDigits(monthstr, 1, 12), LAMBDA month :
    With(DayDigits(daystr), LAMBDA day :
        IF IsNone(month) \/ IsNone(day) THEN None
        ELSE IF The(day) > DaysInMonth[The(month)] THEN None
        ELSE Some(DaysBefore(The(month)) + The(day) - 1)))

strptime(datetimestr) ==
    With(find(datetimestr, "/"), LAMBDA slash :
    With(From(datetimestr, slash + 1), LAMBDA afterSlash :
    \* the day ends at the first whitespace after its first character
    With(FirstSpace(afterSlash, 2), LAMBDA gap :
        IF slash = 0 \/ gap = 0 THEN None
        ELSE With(DateDays(SubSeq(datetimestr, 1, slash - 1),
                           SubSeq(afterSlash, 1, gap - 1)), LAMBDA days :
             With(ClockSeconds(LStrip(From(afterSlash, gap), Whitespace)), LAMBDA clock :
                 IF IsNone(days) \/ IsNone(clock) THEN None
                 ELSE Some(The(days) * 86400 + The(clock)))))))

\* datetimeobj.timestamp() of the parsed time plus the milliseconds, as
\* <<whole seconds, milliseconds>> (the local zone taken to be UTC)
Timestamp(seconds, milliseconds) ==
    <<seconds + (milliseconds \div 1000), milliseconds % 1000>>

----------------------------------------------------------------------------
(* Unit and CombatLogEvent.from_log_line *)

\* 2^(16 * k) - h for halves h, top being 2^(16 * (k - 1))
Complement(h, top) ==
    IF h[2] = 0 THEN <<top - h[1], 0>> ELSE <<top - h[1] - 1, HalfWord - h[2]>>

\* UnitFlag(value) under the KEEP boundary, all 32 bits being named: the
\* value as its <<high, low>> 16-bit halves; a negative value is read as
\* its complement within the 32 bits, or within its own bit length when
\* it has more
UnitFlagCall(value) ==
    IF value.sign > 0 \/ value.halves = <<0, 0>> THEN value.halves
    ELSE IF value.halves[1] < HalfWord \/ value.halves = <<HalfWord, 0>>
    THEN Complement(value.halves, HalfWord)
    ELSE Complement(value.halves, Pow2(bit_length(value.halves[1])))

\* UnitFlag.from_literal(literal): cls(int(literal, 0)). [exc, val]
UnitFlag_from_literal(literal) ==
    With(int0w(literal), LAMBDA n :
        IF IsNone(n) THEN [exc |-> "ValueError", val |-> None]
        ELSE [exc |-> "", val |-> UnitFlagCall(The(n))])

\* UnitGuid.__int__: int(str(self).strip(), base=0). [exc, val]
UnitGuid_int(guid) ==
    With(int0w(strip(guid)), LAMBDA n :
        IF IsNone(n) THEN [exc |-> "ValueError", val |-> None]
        ELSE [exc |-> "", val |-> The(n)])

\* to_int without its except clause
IntOrRaise(guid) == UnitGuid_int(guid)

\* UnitGuid.to_int: int(self), or 0 when that raises ValueError. [exc, val]
UnitGuid_to_int(guid) ==
    With(UnitGuid_int(guid), LAMBDA r :
        IF r.exc = "ValueError" THEN [exc |-> "", val |-> Wide(0)] ELSE r)

\* Unit(guid, name, flags) with flags given as a str: __post_init__ casts
\* the flags with UnitFlag.from_literal. [exc, unit]
MakeUnit(guid, name, flags) ==
    With(UnitFlag_from_literal(flags), LAMBDA f :
        IF f.exc # "" THEN [exc |-> f.exc, unit |-> None]
        ELSE [exc |-> "", unit |-> Some(Unit(guid, name, f.val))])

\* int(unit): int(self.flags)
Unit_int(unit) == unit.flags

\* field.strip().strip('"')
Clean(field) == strip_chars(strip(field), {"\""})

\* len(event_parts) < 7: no source-dest info
MinParts == 7
IsShort(event_parts) == Len(event_parts) < MinParts

\* the record built from the timestamp and the tokens of the event section
\* defaults that are blank units in the place of None
BlankDefaults(timestamp, name) ==
    CombatLogEvent(timestamp, name, Some(Unit("", "", <<0, 0>>)),
                   Some(Unit("", "", <<0, 0>>)), <<>>)

\* cls(timestamp, name): source, dest and params take the dataclass defaults
Defaults(timestamp, name) == CombatLogEvent(timestamp, name, None, None, <<>>)

\* Unit(...) from the three fields that start at field i
UnitAt(event_parts, i) ==
    MakeUnit(Clean(event_parts[i]), Clean(event_parts[i + 1]), Clean(event_parts[i + 2]))

BuildEvent(timestamp, event_parts) ==
    With(strip(event_parts[1]), LAMBDA name :
        IF IsShort(event_parts)
        THEN [exc |-> "", obj |-> Some(Defaults(timestamp, name))]
        ELSE With(UnitAt(event_parts, 2), LAMBDA source :
                 IF source.exc # "" THEN [exc |-> source.exc, obj |-> None]
                 ELSE With(UnitAt(event_parts, 5), LAMBDA dest :
                     IF dest.exc # "" THEN [exc |-> dest.exc, obj |-> None]
                     ELSE [exc |-> "",
                           obj |-> Some(CombatLogEvent(timestamp, name, source.unit, dest.unit,
                                   [i \in 1..(Len(event_parts) - 7) |->
                                        Clean(event_parts[i + 7])]))])))

\* CombatLogEvent.from_log_line(line): [exc, obj]
from_log_line(line) ==
    With(split1(strip(line), "  "), LAMBDA halves :
        IF Len(halves) < 2 THEN [exc |-> "ValueError", obj |-> None]
        ELSE With(rsplit1(halves[1], "."), LAMBDA stamp :
        IF Len(stamp) < 2 THEN [exc |-> "ValueError", obj |-> None]
        ELSE With(strptime(stamp[1]), LAMBDA seconds :
             With(int10(stamp[2]), LAMBDA milliseconds :
        IF IsNone(seconds) \/ IsNone(milliseconds)
        THEN [exc |-> "ValueError", obj |-> None]
        ELSE With(shlex_split(halves[2]), LAMBDA lexed :
        IF lexed.exc # "" THEN [exc |-> lexed.exc, obj |-> None]
        ELSE IF Len(lexed.tokens) = 0 THEN [exc |-> "IndexError", obj |-> None]
        ELSE BuildEvent(Timestamp(The(seconds), The(milliseconds)), lexed.tokens))))))

----------------------------------------------------------------------------
(* parse_combat_log_line *)

\* an except clause that names the base class only by its own name
OnlyParsingError == {"ParsingError"}

\* ParsingError and its subclasses: what parse_combat_log_line catches
ParsingErrors == {"ParsingError", "ParsingLookupError"}

NoEvent == [t |-> "str", v |-> ""]
NoFrame ==
    [event |-> "", params |-> <<>>, prefix_match |-> <<>>, prefix |-> None,
     suffix |-> None, prefix_fields |-> None, suffix_fields |-> None,
     parsed_count |-> 0, params_left |-> <<>>]

\* a handler that returns the parser's map as the failed call left it
ReturnParserMap(line, v2m) ==
    With(from_log_line(line), LAMBDA built :
        IF built.exc # ""
        THEN [exc |-> built.exc, ret |-> EmptyDict, obj |-> None, v2m |-> v2m,
              parsed |-> EmptyDict, frame |-> NoFrame, outcome |-> "none"]
        ELSE With(The(built.obj), LAMBDA obj :
             With(parse("EventParamsParser", obj, obj.params, EmptyDict, None, v2m),
                  LAMBDA call :
        IF call.exc \in ParsingErrors \/ call.exc = ""
        THEN [exc |-> "", ret |-> call.parsed, obj |-> built.obj, v2m |-> call.v2m,
              parsed |-> call.parsed, frame |-> call.frame,
              outcome |-> IF call.exc = "" THEN "returned" ELSE call.exc]
        ELSE [exc |-> call.exc, ret |-> EmptyDict, obj |-> built.obj, v2m |-> call.v2m,
              parsed |-> call.parsed, frame |-> call.frame, outcome |-> call.exc])))

\* parse_combat_log_line(line) with the enum maps v2m:
\*   exc      the exception that propagates to the caller, "" when none
\*   ret      the mapping returned
\*   obj      the CombatLogEvent built, None when from_log_line raised
\*   call     the result of EventParamsParser(obj).parse(), when it was made
parse_combat_log_line(line, v2m) ==
    With(from_log_line(line), LAMBDA built :
        IF built.exc # ""
        THEN [exc |-> built.exc, ret |-> EmptyDict, obj |-> None, v2m |-> v2m,
              parsed |-> EmptyDict, frame |-> NoFrame, outcome |-> "none"]
        ELSE With(The(built.obj), LAMBDA obj :
             With(parse("EventParamsParser", obj, obj.params, EmptyDict, None, v2m),
                  LAMBDA call :
        IF call.exc \in ParsingErrors
        THEN [exc |-> "", ret |-> EmptyDict, obj |-> built.obj, v2m |-> call.v2m,
              parsed |-> call.parsed, frame |-> call.frame, outcome |-> call.exc]
        ELSE IF call.exc # ""
        THEN [exc |-> call.exc, ret |-> EmptyDict, obj |-> built.obj, v2m |-> call.v2m,
              parsed |-> call.parsed, frame |-> call.frame, outcome |-> call.exc]
        ELSE [exc |-> "", ret |-> call.parsed, obj |-> built.obj, v2m |-> call.v2m,
              parsed |-> call.parsed, frame |-> call.frame, outcome |-> "returned"])))

----------------------------------------------------------------------------
(* Inputs *)

MaxLines == 2
MaxParams == 13
MaxCalls == 2

Stamp == "4/21 20:19:34.123  "

ScenarioLine ==
    "4/21 20:19:34.123  SPELL_DAMAGE,Player-1-0x1,\"Foo\",0x511,Creature-0-0-0-0-0,\"Dummy\",0x10a48,12345,\"Fireball\",0x4,100,0,0,0,0,0,nil,nil,nil"

\* a well-formed line whose event name has no schema
UnknownEventLine == Stamp \o "FOO_BAR_EVENT,a,b,0x1,c,d,0x2,1\n"
\* a line with one space only between the timestamp and the event section
NoSeparatorLine == "4/21 20:19:34.123 SPELL_DAMAGE,a,b,0x1,c,d,0x2,1\n"
\* lines whose params hold a value that its caster rejects
BadIntLine == Stamp \o "SPELL_DAMAGE,a,b,0x1,c,d,0x2,abc\n"
BadPowerLine == Stamp \o "SPELL_ENERGIZE,a,b,0x1,c,d,0x2,1,n,0x1,5,99\n"
\* lines of fewer than 7 fields: 3 fields, and 6 fields with a quoted comma
ShortLine == Stamp \o "SPELL_DAMAGE,a,b\n"
ShortQuotedLine == Stamp \o "UNIT_DIED,a,\"b,c\",0x1,c,d\n"

\* full lines: params beyond the schema; flags that are no integer literal;
\* quoted fields that hold commas, and fields padded with spaces
LeftoverLine == Stamp \o "SWING_DAMAGE,a,b,0x1,c,d,0x2,1,2,0x1,4,5,6,nil,nil,nil,x,y\n"
NilFlagsLine == Stamp \o "UNIT_DIED,a,b,0x1,c,d,nil\n"
QuotedCommaLine ==
    Stamp \o "SPELL_CAST_SUCCESS,Player-1,\"Foo, the Bar\", 0x511 ,Creature-2,\"Dummy\",0x10a48,7,\"Fire, Ball\",0x4\n"

LineSamples ==
    { ScenarioLine,
      " \n",
      UnknownEventLine,
      NoSeparatorLine,
      "4/21 20:19:34  SPELL_DAMAGE,a,b\n",
      BadIntLine,
      BadPowerLine,
      ShortLine,
      ShortQuotedLine,
      Stamp \o " X \n",
      LeftoverLine,
      Stamp \o "SPELL_AURA_APPLIED,a,b,0x1,c,d,0x2,1,n,0x1,Zap\n",
      NilFlagsLine,
      QuotedCommaLine,
      Stamp \o ",,,\n",
      Stamp \o "SWING_MISSED,a,b,0x1,c,d,0x2,DODGE" }

\* the files: every sequence of at most MaxLines sample lines
Files == UNION {[1..n -> LineSamples] : n \in 0..MaxLines}

PrefixSamples ==
    {"SWING", "RANGE", "SPELL", "SPELL_PERIODIC", "SPELL_BUILDING", "ENVIRONMENTAL",
     "SPELLS", "FOO", ""}
SuffixSamples ==
    {"_DAMAGE", "_MISSED", "_HEAL", "_HEAL_ABSORBED", "_ENERGIZE", "_AURA_APPLIED_DOSE",
     "_CAST_FAILED", "_INSTAKILL", "_PERIODIC_DAMAGE", "_BAR_EVENT", ""}
SpecialSamples ==
    {"DAMAGE_SPLIT", "DAMAGE_SHIELD", "DAMAGE_SHIELD_MISSED", "ENCHANT_APPLIED",
     "UNIT_DIED", "UNIT_DIED_X"}
SyntheticSamples ==
    {"DUP_TAIL", "DUP_OK", "DUP_LONG_TAIL", "DUP_LONG_OK", "DUP_LONGER", "DUP", "DUPLEX",
     "TWIN", "TWINS", "OTHER"}

NameInputs(c) ==
    IF c = "EventParamsParser"
    THEN {p \o x : p \in PrefixSamples, x \in SuffixSamples} \cup SpecialSamples
    ELSE SyntheticSamples

BaseParams ==
    { <<"12345", "Fireball", "0x4", "100", "0", "0", "0", "0", "0", "nil", "nil", "nil",
        "x", "y">>,
      <<"100", "0", "1", "0", "0", "0", "nil", "1", "nil", "extra">>,
      <<"1", "n", "0x1", "DODGE", "5", "z">>,
      <<"1", "n", "0x1", "5", "99", "7">>,
      <<"1", "n", "zz", "5">>,
      <<"FALLING", "100", "0", "1">>,
      <<"a", "1", "c", "zzz", "d", "e">>,
      <<"abc", "2", "3">> }

Min(a, b) == IF a <= b THEN a ELSE b

\* the params tails: every prefix of a base list, at most MaxParams long
ParamInputs ==
    UNION {{SubSeq(b, 1, n) : n \in 0..Min(Len(b), MaxParams)} : b \in BaseParams}

\* the params given to a parse(params) call; None takes self.params
ArgInputs == {None, Some(<<>>), Some(<<"7", "8", "0x2">>)}

SampleSource == Some(Unit("Player-1-0x1", "Foo", UnitFlagCall(Wide(1297))))
SampleDest == Some(Unit("Creature-0-0-0-0-0", "Dummy", UnitFlagCall(Wide(68168))))

\* EventParamsParser(event, params): event is a str or a CombatLogEvent
EventInputs(c) ==
    {StrValue(n) : n \in NameInputs(c)}
    \cup {CombatLogEvent(<<9577174, 123>>, n, SampleSource, SampleDest, ps) :
            n \in NameInputs(c), ps \in ParamInputs}

----------------------------------------------------------------------------
(* parse_combat_log_generator over a file *)

Init ==
    /\ file \in Files
    /\ pos = 0
    /\ yielded = <<>>
    /\ gen = "running"
    /\ error = ""
    /\ record = None
    /\ cls = "EventParamsParser"
    /\ event = NoEvent
    /\ params = <<>>
    /\ parsed = EmptyDict
    /\ frame = NoFrame
    /\ outcome = "none"
    /\ calls = 0
    /\ value2member = DeclaredMembers
    /\ callee = ""
    /\ argument = ""
    /\ retval = None
    /\ pc = <<>>
    /\ local = <<>>

\* the effect of one parse_combat_log_line call on the parser state
LineEffect(r) ==
    /\ record' = r.obj
    /\ event' = IF IsNone(r.obj) THEN NoEvent ELSE The(r.obj)
    /\ params' = IF IsNone(r.obj) THEN <<>> ELSE The(r.obj).params
    /\ parsed' = r.parsed
    /\ frame' = r.frame
    /\ outcome' = r.outcome
    /\ calls' = IF IsNone(r.obj) THEN 0 ELSE 1
    /\ value2member' = r.v2m
    /\ UNCHANGED <<file, cls, direct>>

\* for line in f: a blank line is passed over
SkipBlank ==
    /\ gen = "running"
    /\ pos < Len(file)
    /\ strip(file[pos + 1]) = ""
    /\ pos' = pos + 1
    /\ UNCHANGED <<file, yielded, gen, error, record, cls, event, params, parsed,
                   frame, outcome, calls, value2member, direct>>

\* a loop that puts the record of a line before the records yielded so far
YieldFirst ==
    /\ gen = "running"
    /\ pos < Len(file)
    /\ strip(file[pos + 1]) # ""
    /\ \E r \in {parse_combat_log_line(file[pos + 1], value2member)} :
           /\ r.exc = ""
           /\ r.ret # EmptyDict
           /\ yielded' = <<r.ret>> \o yielded
           /\ LineEffect(r)
    /\ pos' = pos + 1
    /\ UNCHANGED <<gen, error>>

\* the line parses to a non-empty mapping, which is yielded
YieldRecord ==
    /\ gen = "running"
    /\ pos < Len(file)
    /\ strip(file[pos + 1]) # ""
    /\ \E r \in {parse_combat_log_line(file[pos + 1], value2member)} :
           /\ r.exc = ""
           /\ r.ret # EmptyDict
           /\ yielded' = Append(yielded, r.ret)
           /\ LineEffect(r)
    /\ pos' = pos + 1
    /\ UNCHANGED <<gen, error>>

\* parse_combat_log_line caught a ParsingError and returned {}: nothing is yielded
SkipLine ==
    /\ gen = "running"
    /\ pos < Len(file)
    /\ strip(file[pos + 1]) # ""
    /\ \E r \in {parse_combat_log_line(file[pos + 1], value2member)} :
           /\ r.exc = ""
           /\ r.ret = EmptyDict
           /\ LineEffect(r)
    /\ pos' = pos + 1
    /\ UNCHANGED <<yielded, gen, error>>

\* an exception that is no ParsingError leaves the generator, which ends it
Propagate ==
    /\ gen = "running"
    /\ pos < Len(file)
    /\ strip(file[pos + 1]) # ""
    /\ \E r \in {parse_combat_log_line(file[pos + 1], value2member)} :
           /\ r.exc # ""
           /\ error' = r.exc
           /\ LineEffect(r)
    /\ gen' = "raised"
    /\ pos' = pos + 1
    /\ UNCHANGED yielded

\* the file is at its end: the generator returns
Exhaust ==
    /\ gen = "running"
    /\ pos = Len(file)
    /\ gen' = "exhausted"
    /\ UNCHANGED <<file, pos, yielded, error, record, cls, event, params, parsed,
                   frame, outcome, calls, value2member, direct>>

Next == SkipBlank \/ YieldRecord \/ SkipLine \/ Propagate \/ Exhaust

Spec == Init /\ [][Next]_vars

----------------------------------------------------------------------------
(* One EventParamsParser instance and the parse() calls made on it *)

InitParser ==
    /\ file = <<>>
    /\ pos = 0
    /\ yielded = <<>>
    /\ gen = "exhausted"
    /\ error = ""
    /\ record = None
    /\ cls \in ParserClasses
    /\ event \in EventInputs(cls)
    /\ params \in IF event.t = "CombatLogEvent" THEN {event.params} ELSE ParamInputs
    /\ parsed = EmptyDict
    /\ frame = NoFrame
    /\ outcome = "none"
    /\ calls = 0
    /\ value2member = DeclaredMembers
    /\ callee = ""
    /\ argument = ""
    /\ retval = None
    /\ pc = <<>>
    /\ local = <<>>

Call(arg) ==
    /\ calls < MaxCalls
    /\ \E r \in {parse(cls, event, params, parsed, arg, value2member)} :
           /\ parsed' = r.parsed
           /\ frame' = r.frame
           /\ outcome' = IF r.exc = "" THEN "returned" ELSE r.exc
           /\ value2member' = r.v2m
    /\ calls' = calls + 1
    /\ UNCHANGED <<file, pos, yielded, gen, error, record, cls, event, params, direct>>

NextParser == \E arg \in ArgInputs : Call(arg)

SpecParser == InitParser /\ [][NextParser]_vars

----------------------------------------------------------------------------
(* Properties of schema resolution and decoding, over SpecParser: the      *)
(* state after a parse() call holds the call's locals in frame.             *)

TableKeys(table) == {table[i].key : i \in 1..Len(table)}
FieldsOf(table, key) == table[CHOOSE i \in 1..Len(table) : table[i].key = key].fields

\* the prefix keys that are literal prefixes of the name, and the longest
MatchingKeys(c, name) == {k \in TableKeys(PrefixTable(c)) : startswith(name, k)}
Longest(keys) == CHOOSE k \in keys : \A j \in keys : Len(j) <= Len(k)

\* the concatenated field list of the schema the last call resolved
Schema == The(frame.prefix_fields) \o The(frame.suffix_fields)

\* the field names the output holds beside the base record
Decoded == DOMAIN parsed \ BaseKeys

\* C1: whenever some key of prefix_parsers is a literal prefix of the event
\* name, the prefix chosen is the longest such key, the prefix-part is that
\* key's field list, and the suffix-part is what suffix_parsers stores under
\* the remainder of the name after the chosen prefix.
C1_LongestPrefix ==
    (calls > 0 /\ MatchingKeys(cls, frame.event) # {}) =>
        LET longest == Longest(MatchingKeys(cls, frame.event))
            rest == From(frame.event, Len(longest) + 1)
        IN  /\ frame.prefix = Some(longest)
            /\ frame.suffix = Some(rest)
            /\ frame.prefix_fields = Some(FieldsOf(PrefixTable(cls), longest))
            /\ frame.suffix_fields =
                   IF rest \in TableKeys(SuffixTable(cls))
                   THEN Some(FieldsOf(SuffixTable(cls), rest))
                   ELSE None

\* SPELL_PERIODIC_DAMAGE, which both SPELL and SPELL_PERIODIC start, was
\* resolved to SPELL_PERIODIC + _DAMAGE
C1_Witness ==
    /\ calls > 0
    /\ cls = "EventParamsParser"
    /\ frame.event = "SPELL_PERIODIC_DAMAGE"
    /\ frame.prefix_match = <<"SPELL", "SPELL_PERIODIC">>
    /\ frame.prefix = Some("SPELL_PERIODIC")
    /\ frame.suffix = Some("_DAMAGE")
    /\ frame.suffix_fields = Some(DamageParser)

\* the two cases in which no schema is found for a name
LookupFails(c, name) ==
    IF MatchingKeys(c, name) # {}
    THEN From(name, Len(Longest(MatchingKeys(c, name))) + 1)
             \notin TableKeys(SuffixTable(c))
    ELSE name \notin TableKeys(SpecialTable(c))

\* C2: parse raises ParsingLookupError exactly when (a) a prefix key matches
\* and the remainder after the longest matching prefix is no key of
\* suffix_parsers, or (b) no prefix key matches and the name is no key of
\* special_parsers; a failed suffix lookup falls back neither to a shorter
\* prefix nor to the special table.
C2_LookupErrorExactly ==
    calls > 0 => (outcome = "ParsingLookupError" <=> LookupFails(cls, frame.event))

\* DUPLEX is a key of the special table, but the prefix DUP matches it and
\* LEX is no suffix: the call raised the lookup error
C2_Witness ==
    /\ calls > 0
    /\ cls = "SyntheticParser"
    /\ frame.event = "DUPLEX"
    /\ frame.prefix = Some("DUP")
    /\ "DUPLEX" \in TableKeys(SpecialTable(cls))
    /\ outcome = "ParsingLookupError"

\* C3: the first successful parse of an instance, with a schema of n fields
\* and m params, adds exactly the first min(n, m) field names to the output,
\* the i-th holding caster_i(params[i]); the trailing n - m fields are not
\* produced at all (a trailing field that repeats the name of a decoded one
\* has nothing of its own to be absent).
C3_ZipDecoding ==
    (calls = 1 /\ outcome = "returned") =>
        LET n == Len(Schema)
            m == Len(frame.params)
        IN  /\ Decoded = {Schema[i].name : i \in 1..Min(n, m)}
            /\ \A i \in 1..Min(n, m) :
                   parsed[Schema[i].name]
                       = Cast(Schema[i].caster, frame.params[i], DeclaredMembers).val
            /\ \A i \in (Min(n, m) + 1)..n :
                   Schema[i].name \notin {Schema[x].name : x \in 1..Min(n, m)}
                       => ~Has(parsed, Schema[i].name)

\* SPELL_DAMAGE (12 fields) with 5 params: amount and overkill are decoded,
\* school and the fields after it are absent
C3_Witness ==
    /\ calls = 1
    /\ outcome = "returned"
    /\ frame.event = "SPELL_DAMAGE"
    /\ Len(Schema) = 12
    /\ Len(frame.params) = 5
    /\ Has(parsed, "overkill")
    /\ ~Has(parsed, "school")

\* C4: after a successful parse with n schema fields and m params the output
\* has the key 'params' if and only if m > n, its value then being
\* params[n:]; with m <= n the key is absent, even when the base record
\* copied into the output carried a 'params' entry.
C4_LeftoverAccounting ==
    (calls > 0 /\ outcome = "returned") =>
        LET n == Len(Schema)
            m == Len(frame.params)
        IN  /\ Has(parsed, "params") <=> m > n
            /\ m > n => parsed["params"] = ListValue(SubSeq(frame.params, n + 1, m))

\* a CombatLogEvent whose params were all consumed: the base record had a
\* non-empty 'params' entry and the output has none
C4_Witness ==
    /\ calls = 1
    /\ outcome = "returned"
    /\ event.t = "CombatLogEvent"
    /\ frame.params = event.params
    /\ Len(frame.params) > 0
    /\ Len(frame.params) <= Len(Schema)
    /\ ~Has(parsed, "params")

\* the first position of a field list whose name occurs before it, 0 when
\* every name occurs once
FirstRepeat(fields) ==
    LET rep == {j \in 1..Len(fields) : \E i \in 1..(j - 1) : fields[i].name = fields[j].name}
    IN  IF rep = {} THEN 0 ELSE CHOOSE j \in rep : \A x \in rep : j <= x

\* C5: on a fresh instance whose schema repeats a field name across its
\* prefix-part and suffix-part, with params that reach the repeat and whose
\* earlier values all cast, parse raises ParsingError at the first repeated
\* key, the caster of that key is not applied, and the value stored under
\* the key stays the one of its first occurrence.
C5_DuplicateField ==
    (calls = 1 /\ outcome # "ParsingLookupError") =>
        LET j == FirstRepeat(Schema)
            first == CHOOSE i \in 1..(j - 1) : Schema[i].name = Schema[j].name
        IN  (/\ j > 0
             /\ Len(frame.params) >= j
             /\ \A i \in 1..(j - 1) :
                    Cast(Schema[i].caster, frame.params[i], DeclaredMembers).exc = "")
            => /\ outcome = "ParsingError"
               /\ frame.parsed_count = j - 1
               /\ parsed[Schema[j].name]
                      = Cast(Schema[first].caster, frame.params[first], DeclaredMembers).val

\* DUP_TAIL repeats 'first' at its 4th field; the 4th param is no int, and
\* the call still ended in the duplicate error with 'first' keeping "a"
C5_Witness ==
    /\ calls = 1
    /\ cls = "SyntheticParser"
    /\ frame.event = "DUP_TAIL"
    /\ Len(frame.params) >= 4
    /\ frame.params[4] = "zzz"
    /\ outcome = "ParsingError"
    /\ parsed["first"] = StrValue("a")

----------------------------------------------------------------------------
(* Properties of a batch run, over Spec: file[pos] is the line read last.  *)

\* the output of the scenario line, with the given school flag
ScenarioOutput(school) ==
    /\ frame.prefix = Some("SPELL")
    /\ frame.suffix = Some("_DAMAGE")
    /\ outcome = "returned"
    /\ yielded # <<>>
    /\ yielded[Len(yielded)] = parsed
    /\ parsed["spellId"] = [t |-> "int", v |-> 12345]
    /\ parsed["spellName"] = StrValue("Fireball")
    /\ parsed["spellSchool"] = [t |-> "SchoolFlag", v |-> school]
    /\ parsed["amount"] = [t |-> "int", v |-> 100]
    /\ parsed["critical"] = [t |-> "bool", v |-> FALSE]
    /\ ~Has(parsed, "params")

ScenarioRead == pos > 0 /\ file[pos] = ScenarioLine

\* C6 as stated: the scenario line yields spellSchool equal to the
\* fire-physical composite flag (FLAMESTRIKE = FIRE | PHYSICAL)
C6_ScenarioComposite == ScenarioRead => ScenarioOutput(FLAMESTRIKE)

\* C6, amended: the scenario line resolves to SPELL + _DAMAGE and yields
\* spellId = 12345, spellName = "Fireball", spellSchool = FIRE (0x4),
\* amount = 100, critical = false and no 'params' key.
C6_ScenarioFire == ScenarioRead => ScenarioOutput(FIRE)

C6_Witness ==
    /\ ScenarioRead
    /\ Len(yielded) = 1
    /\ yielded[1]["spellSchool"].v = FIRE
    /\ frame.parsed_count = 12

\* C7: in a batch run the step that reads a well-formed line whose event
\* name has no schema yields nothing and leaves the generator running, so
\* the lines after it are read.
C7_UnknownEventSkipped ==
    [][(pos' = pos + 1 /\ record' # None /\ outcome' = "ParsingLookupError")
        => (yielded' = yielded /\ gen' = "running")]_vars

\* the unknown event was read first and the line after it was yielded
C7_Witness ==
    /\ pos = 2
    /\ file[1] = UnknownEventLine
    /\ file[2] = ScenarioLine
    /\ Len(yielded) = 1
    /\ yielded[1]["name"] = StrValue("SPELL_DAMAGE")
    /\ gen = "running"

\* the decoding loop of the last call stopped at a field that was not yet
\* decoded and whose caster rejects its raw value
CastRejected ==
    /\ calls = 1
    /\ outcome \notin {"none", "returned", "ParsingLookupError"}
    /\ frame.parsed_count < Min(Len(Schema), Len(frame.params))
    /\ ~Has(parsed, Schema[frame.parsed_count + 1].name)
    /\ Cast(Schema[frame.parsed_count + 1].caster,
            frame.params[frame.parsed_count + 1], value2member).exc # ""

\* C8 as stated: a value its caster rejects ends the call in an error of the
\* parser's own class, and the batch run goes on past the line.
C8_CastFailureRecoverable ==
    CastRejected => (outcome \in ParsingErrors /\ gen # "raised")

\* a non-blank line without the two-space separator
NoSeparator(line) == strip(line) # "" /\ find(strip(line), "  ") = 0

\* C9 as stated: a non-blank line without the separator yields no record
\* and the batch run goes on past it.
C9_MalformedLineSkipped ==
    (pos > 0 /\ NoSeparator(file[pos])) => (gen # "raised" /\ error = "")

\* the event section of a line, and the time its timestamp names
EventSection(line) == split1(strip(line), "  ")[2]
StampOf(line) == rsplit1(split1(strip(line), "  ")[1], ".")
HasValidStamp(line) ==
    /\ Len(split1(strip(line), "  ")) = 2
    /\ Len(StampOf(line)) = 2
    /\ ~IsNone(strptime(StampOf(line)[1]))
    /\ ~IsNone(int10(StampOf(line)[2]))

\* a line with a valid timestamp whose event section tokenizes to 1..6 fields
Degraded(line) ==
    /\ HasValidStamp(line)
    /\ shlex_split(EventSection(line)).exc = ""
    /\ Len(shlex_split(EventSection(line)).tokens) \in 1..6

\* C10: for a line with a valid timestamp and 1 to 6 fields from_log_line
\* raises nothing and returns a record of the timestamp and the name (the
\* first field, stripped), with source and dest None and params empty: the
\* other fields of the line are dropped.
C10_DegradedShortLine ==
    (pos > 0 /\ Degraded(file[pos])) =>
        /\ record # None
        /\ The(record).timestamp
               = Timestamp(The(strptime(StampOf(file[pos])[1])),
                           The(int10(StampOf(file[pos])[2])))
        /\ The(record).name = strip(shlex_split(EventSection(file[pos])).tokens[1])
        /\ The(record).source = None
        /\ The(record).dest = None
        /\ The(record).params = <<>>

\* the 6-field line, one field of which holds a quoted comma, was read
C10_Witness ==
    /\ pos > 0
    /\ file[pos] = ShortQuotedLine
    /\ Len(shlex_split(EventSection(file[pos])).tokens) = 6
    /\ record # None
    /\ The(record).name = "UNIT_DIED"
    /\ The(record).params = <<>>

----------------------------------------------------------------------------
(* Properties of record building, over Spec                                 *)

\* the fields of a line's event section, and the cleaned field i
Fields(line) == shlex_split(EventSection(line)).tokens
Cleaned(line, i) == strip_chars(strip(Fields(line)[i]), {"\""})

\* a line with a valid timestamp whose event section tokenizes to 7 fields
\* or more
FullLine(line) ==
    /\ HasValidStamp(line)
    /\ shlex_split(EventSection(line)).exc = ""
    /\ Len(Fields(line)) >= 7

\* both flags fields of a full line are integer literals
FlagsAreLiterals(line) ==
    ~IsNone(int0(Cleaned(line, 4))) /\ ~IsNone(int0(Cleaned(line, 7)))

\* the unit that the three fields from field i on describe
UnitOf(line, i) ==
    Unit(Cleaned(line, i), Cleaned(line, i + 1),
         UnitFlagCall(The(int0w(Cleaned(line, i + 2)))))

\* the record of a full line: name, both actors and the params tail
FullRecord(line) ==
    /\ record # None
    /\ The(record).name = strip(Fields(line)[1])
    /\ The(record).source = Some(UnitOf(line, 2))
    /\ The(record).dest = Some(UnitOf(line, 5))
    /\ Len(The(record).params) = Len(Fields(line)) - 7
    /\ \A i \in 1..(Len(Fields(line)) - 7) :
           The(record).params[i] = Cleaned(line, i + 7)

\* C11 as stated: every line of k >= 7 fields gives a record with
\* name = fields[0], both actors non-null and built from fields[1..4) and
\* fields[4..7), and params = fields[7..k).
C11_FullRecordAlways == (pos > 0 /\ FullLine(file[pos])) => FullRecord(file[pos])

\* C11 where the code agrees: every line of k >= 7 fields whose two flags
\* fields are integer literals gives a record with name = fields[0], both
\* actors non-null and built from fields[1..4) and fields[4..7) as (id,
\* name, flags), and params = fields[7..k) in order; a line of k >= 7 fields
\* gives no record only when a flags field is no integer literal.
C11_FullRecord ==
    (pos > 0 /\ FullLine(file[pos])) =>
        /\ FlagsAreLiterals(file[pos]) => FullRecord(file[pos])
        /\ record = None => ~FlagsAreLiterals(file[pos])

\* the line of 18 fields was read: both actors are there and 11 params
C11_Witness ==
    /\ pos > 0
    /\ file[pos] = LeftoverLine
    /\ record # None
    /\ The(record).source = Some(Unit("a", "b", <<0, 1>>))
    /\ The(record).dest = Some(Unit("c", "d", <<0, 2>>))
    /\ Len(The(record).params) = 11

\* the flag sets that stand for "no flags": UnitFlag(0) and UnitFlag.NONE
NoFlags == {<<0, 0>>, <<32768, 0>>}

\* C12: when the flags field of a source or dest actor is no valid integer
\* literal ('nil', empty), building the actor does not raise: the record is
\* produced and the actor's flag set is "no flags".
C12_LenientFlags ==
    (pos > 0 /\ FullLine(file[pos]) /\ ~FlagsAreLiterals(file[pos])) =>
        /\ error = ""
        /\ record # None
        /\ IsNone(int0(Cleaned(file[pos], 4))) =>
               The(The(record).source).flags \in NoFlags
        /\ IsNone(int0(Cleaned(file[pos], 7))) =>
               The(The(record).dest).flags \in NoFlags

----------------------------------------------------------------------------
(* One function of the module called on its own: the literals of flags     *)

\* the variables of the batch, of the parser instance and of the threads
others == <<file, pos, yielded, gen, error, record, cls, event, params, parsed,
            frame, outcome, calls, pc, local>>

\* the 16-bit halves that flag values are put together from
HalfSamples == {0, 1, 2632, 32767, 32768, 65535}

\* flag values over the 32 bits, as <<high, low>>
FlagValues == HalfSamples \X HalfSamples

RECURSIVE HexDigits(_)
HexDigits(n) ==
    IF n < 16 THEN Ch(DigitChars, n + 1)
    ELSE HexDigits(n \div 16) \o Ch(DigitChars, (n % 16) + 1)

\* four hex digits of a half
FourHex(n) ==
    Ch(DigitChars, (n \div 4096) + 1) \o Ch(DigitChars, ((n \div 256) % 16) + 1)
        \o Ch(DigitChars, ((n \div 16) % 16) + 1) \o Ch(DigitChars, (n % 16) + 1)

\* the 0x-hex literal of a value
HexLiteral(v) ==
    IF v[1] = 0 THEN "0x" \o HexDigits(v[2])
    ELSE "0x" \o HexDigits(v[1]) \o FourHex(v[2])

\* the quotient and the remainder of a value by 10
Div10(v) == <<v[1] \div 10, ((v[1] % 10) * HalfWord + v[2]) \div 10>>
Mod10(v) == ((v[1] % 10) * HalfWord + v[2]) % 10

\* the decimal literal of a value
RECURSIVE DecLiteral(_)
DecLiteral(v) ==
    IF v[1] = 0 /\ v[2] < 10 THEN Ch(DigitChars, v[2] + 1)
    ELSE DecLiteral(Div10(v)) \o Ch(DigitChars, Mod10(v) + 1)

FlagLiterals(v) == {HexLiteral(v), DecLiteral(v)}

\* texts that are no literal of a value in the 32 bits, or not its plain one
OtherFlagTexts == {"nil", "", "-1", "010", "0X1F", " 0x5 ", "0x100000000"}

FlagTexts == UNION {FlagLiterals(v) : v \in FlagValues} \cup OtherFlagTexts

InitCalls ==
    /\ file = <<>>
    /\ pos = 0
    /\ yielded = <<>>
    /\ gen = "exhausted"
    /\ error = ""
    /\ record = None
    /\ cls = "EventParamsParser"
    /\ event = NoEvent
    /\ params = <<>>
    /\ parsed = EmptyDict
    /\ frame = NoFrame
    /\ outcome = "none"
    /\ calls = 0
    /\ value2member = DeclaredMembers
    /\ callee = ""
    /\ argument = ""
    /\ retval = None
    /\ pc = <<>>
    /\ local = <<>>

\* UnitFlag.from_literal(literal), read back with int()
CallFromLiteral ==
    \E literal \in FlagTexts :
        /\ callee' = "UnitFlag.from_literal"
        /\ argument' = literal
        /\ retval' = UnitFlag_from_literal(literal)
        /\ UNCHANGED <<others, value2member>>

\* int(Unit(guid, name, literal))
CallUnitInt ==
    \E literal \in FlagTexts :
        /\ callee' = "int(Unit)"
        /\ argument' = literal
        /\ \E u \in {MakeUnit("Player-1", "Foo", literal)} :
               retval' = IF u.exc # "" THEN [exc |-> u.exc, val |-> None]
                         ELSE [exc |-> "", val |-> Unit_int(The(u.unit))]
        /\ UNCHANGED <<others, value2member>>

\* identifier texts, each with the value that UnitGuid(text).to_int() gives
\* when the program is run
GuidInt ==
    [text \in {"Player-1-00000001", "Creature-0-0-0-0-0", "", "nil", "0x", "010"}
        |-> Wide(0)]
    @@ ("0xF13000" :> Wide(15806464)) @@ ("12345" :> Wide(12345))
    @@ (" 42 " :> Wide(42)) @@ ("0X1f" :> Wide(31)) @@ ("-5" :> Wide(-5))
    @@ ("-0" :> Wide(0)) @@ ("0o17" :> Wide(15)) @@ ("0b11" :> Wide(3))
    @@ ("1_000" :> Wide(1000)) @@ ("0x_1f" :> Wide(31))

GuidTexts == DOMAIN GuidInt

\* Unit(guid, name, flags).guid.to_int(), and the guid of the unit after it
CallToInt ==
    \E guid \in GuidTexts :
        /\ callee' = "UnitGuid.to_int"
        /\ argument' = guid
        /\ \E u \in {MakeUnit(guid, "Foo", "0x511")} :
               retval' = [exc |-> UnitGuid_to_int(The(u.unit).guid).exc,
                          val |-> UnitGuid_to_int(The(u.unit).guid).val,
                          guid |-> The(u.unit).guid]
        /\ UNCHANGED <<others, value2member>>

\* raw texts handed to the casters of the schemas
CastTexts == {"12", "0x1F", "abc", "", " 7 ", "-3", "nil", "0x4", "1_0"}
EnumTexts == {"BUFF", "DODGE", "Zap", "9lives", "Foo Bar", ""}

\* the members that the enum maps hold beyond the declared ones
PseudoCount(v2m) ==
    Cardinality({cv \in StrEnumClasses \X EnumTexts :
                    /\ Has(v2m[cv[1]], cv[2])
                    /\ ~Has(DeclaredMembers[cv[1]], cv[2])})

MaxPseudo == 1

\* caster(text) for a caster of the field schemas that is no StrEnumParser
CallCast ==
    \E caster \in Casters \ StrEnumClasses :
        \E text \in CastTexts :
            \E r \in {Cast(caster, text, value2member)} :
                /\ callee' = caster
                /\ argument' = text
                /\ retval' = [exc |-> r.exc, val |-> r.val]
                /\ UNCHANGED <<others, value2member>>

NextCalls == CallFromLiteral \/ CallUnitInt \/ CallToInt \/ CallCast

SpecCalls == InitCalls /\ [][NextCalls]_vars

\* cls(text) for a StrEnumParser subclass, as the field schemas call it;
\* the class maps live as long as the process does
CallEnum ==
    \E c \in StrEnumClasses :
        \E text \in EnumTexts :
            \E r \in {Cast(c, text, value2member)} :
                /\ PseudoCount(r.v2m) <= MaxPseudo
                /\ callee' = c
                /\ argument' = text
                /\ retval' = [exc |-> r.exc, val |-> r.val]
                /\ value2member' = r.v2m
                /\ UNCHANGED others

NextEnums == CallEnum

SpecEnums == InitCalls /\ [][NextEnums]_vars

\* C13: for every value v of the 32 bits, UnitFlag.from_literal of v's
\* decimal or 0x-hex literal succeeds and its integer view is v, bits that
\* make no single named flag included; int(unit) of a Unit built from the
\* literal is v as well.
C13_FlagRoundTrip ==
    \A v \in FlagValues :
        (callee \in {"UnitFlag.from_literal", "int(Unit)"}
            /\ argument \in FlagLiterals(v))
        => retval = [exc |-> "", val |-> v]

\* int(Unit(..., "0x10a48")) gave 0x10a48 = 0x1 * 65536 + 0x0a48
C13_Witness ==
    /\ callee = "int(Unit)"
    /\ argument = "0x10a48"
    /\ retval = [exc |-> "", val |-> <<1, 2632>>]

\* the text, stripped, is a decimal literal (digits only) or a 0x-hex one
PlainLiteral(text) ==
    \/ DigitsOk(strip(text), 10, FALSE) /\ find(strip(text), "_") = -1
    \/ /\ startswith(strip(text), "0x") \/ startswith(strip(text), "0X")
       /\ DigitsOk(From(strip(text), 3), 16, FALSE)
       /\ find(strip(text), "_") = -1

\* the value of such a text
PlainValue(text) ==
    IF startswith(strip(text), "0x") \/ startswith(strip(text), "0X")
    THEN Wide(DigitsValue(From(strip(text), 3), 16, 0))
    ELSE Wide(DigitsValue(strip(text), 10, 0))

C15_RadixPrefixDecoded ==
    callee = "int" =>
        /\ ~IsNone(int10(argument)) =>
               retval = [exc |-> "", val |-> [t |-> "int", v |-> The(int10(argument))]]
        /\ (IsNone(int10(argument)) /\ ~IsNone(int0(argument))) =>
               retval = [exc |-> "", val |-> [t |-> "int", v |-> The(int0(argument))]]
        /\ retval.exc # "" => (IsNone(int10(argument)) /\ IsNone(int0(argument)))

\* C16: casting a raw text to a StrEnumParser subclass never fails; the tag
\* it gives has the raw text as its value (a known member when the text is
\* a known value) and is the one the class map holds from then on, so that
\* the same text cast again gives the identical tag.
C16_CastNeverFails ==
    callee \in StrEnumClasses =>
        /\ retval.exc = ""
        /\ retval.val.v = argument
        /\ Has(value2member[callee], argument)
        /\ value2member[callee][argument] = retval.val

\* C16 where the code agrees: a text whose derived member name is an
\* identifier is cast without failure to a tag with the text as its value,
\* the declared member when there is one, and a cast of a text that the
\* class map holds gives the map's own tag and leaves the map as it is.
C16_TagsCached ==
    [][\A c \in StrEnumClasses :
          (callee' = c /\ ~IsNone(value_to_name(argument'))) =>
              /\ retval'.exc = ""
              /\ retval'.val.v = argument'
              /\ retval'.val.t = c
              /\ value2member'[c][argument'] = retval'.val
              /\ Has(DeclaredMembers[c], argument') =>
                     retval'.val = DeclaredMembers[c][argument']
              /\ Has(value2member[c], argument') =>
                     /\ value2member' = value2member
                     /\ retval'.val = value2member[c][argument']]_vars

----------------------------------------------------------------------------
(* Threads that cast the same unseen text through pseudo_member. Each     *)
(* dict call (get, setdefault) is one step: the interpreter runs it as a  *)
(* whole. What a thread builds in between is its own.                      *)

MaxThreads == 2

Threads == 1..MaxThreads

\* texts that no class declares, with a member name to derive
UnseenTexts == {"Zap", "9lives", "Foo Bar"}

\* the object that thread th constructs: str.__new__(cls, value) with
\* _name_ and _value_ set; id tells the objects of two threads apart
NewPseudo(c, value, th) ==
    [t |-> c, name |-> The(value_to_name(value)), v |-> value, id |-> th]

InitThreads ==
    /\ file = <<>>
    /\ pos = 0
    /\ yielded = <<>>
    /\ gen = "exhausted"
    /\ error = ""
    /\ record = None
    /\ cls = "EventParamsParser"
    /\ event = NoEvent
    /\ params = <<>>
    /\ parsed = EmptyDict
    /\ frame = NoFrame
    /\ outcome = "none"
    /\ calls = 0
    /\ value2member = DeclaredMembers
    /\ callee \in StrEnumClasses
    /\ argument \in UnseenTexts
    /\ retval = [th \in Threads |-> None]
    /\ pc = [th \in Threads |-> "idle"]
    /\ local = [th \in Threads |-> None]

fixed == <<file, pos, yielded, gen, error, record, cls, event, params, parsed,
           frame, outcome, calls, callee, argument>>

\* pseudo = cls._value2member_map_.get(value, None)
Lookup(th) ==
    /\ pc[th] = "idle"
    /\ local' = [local EXCEPT ![th] =
                     IF Has(value2member[callee], argument)
                     THEN Some(value2member[callee][argument]) ELSE None]
    /\ pc' = [pc EXCEPT ![th] =
                 IF Has(value2member[callee], argument) THEN "return" ELSE "construct"]
    /\ UNCHANGED <<fixed, value2member, retval>>

\* if pseudo is None: construct a member
Construct(th) ==
    /\ pc[th] = "construct"
    /\ local' = [local EXCEPT ![th] = Some(NewPseudo(callee, argument, th))]
    /\ pc' = [pc EXCEPT ![th] = "setdefault"]
    /\ UNCHANGED <<fixed, value2member, retval>>

\* pseudo = cls._value2member_map_.setdefault(value, pseudo)
StoreDefault(th) ==
    /\ pc[th] = "setdefault"
    /\ \E m \in {SetDefault(value2member[callee], argument, The(local[th]))} :
           /\ value2member' = [value2member EXCEPT ![callee] = m]
           /\ local' = [local EXCEPT ![th] = Some(m[argument])]
    /\ pc' = [pc EXCEPT ![th] = "return"]
    /\ UNCHANGED <<fixed, retval>>

\* return pseudo; the thread may then call again
Return(th) ==
    /\ pc[th] = "return"
    /\ retval' = [retval EXCEPT ![th] = local[th]]
    /\ pc' = [pc EXCEPT ![th] = "idle"]
    /\ UNCHANGED <<fixed, value2member, local>>

NextThreads ==
    \E th \in Threads : Lookup(th) \/ Construct(th) \/ StoreDefault(th) \/ Return(th)

SpecThreads == InitThreads /\ [][NextThreads]_vars

\* C17: when threads cast the same unseen text through pseudo_member at
\* the same time, under every interleaving each of them returns the tag
\* that the cache holds for the text, which is the first writer's: once
\* the cache holds a tag for the text no step replaces it, so that no later
\* reader sees another identity.
C17_FirstWriterWins ==
    [][/\ Has(value2member[callee], argument) =>
              value2member'[callee][argument] = value2member[callee][argument]
       /\ \A th \in Threads :
              retval'[th] # None =>
                  /\ Has(value2member'[callee], argument)
                  /\ retval'[th] = Some(value2member'[callee][argument])
       /\ \A th \in Threads :
              (pc[th] = "setdefault" /\ pc'[th] = "return"
                  /\ ~Has(value2member[callee], argument)) =>
                  value2member'[callee][argument].id = th]_vars

\* a race: thread 1 built a tag of its own while thread 2 stored and
\* returned its tag first
C17_Witness ==
    /\ pc[1] = "setdefault"
    /\ The(local[1]).id = 1
    /\ Has(value2member[callee], argument)
    /\ value2member[callee][argument].id = 2
    /\ retval[2] = Some(value2member[callee][argument])

----------------------------------------------------------------------------
(* Properties of the tokenizer, over Spec                                   *)

\* position i of s stands inside a pair of double quotes
Quoted(s, i) == Cardinality({j \in 1..(i - 1) : Ch(s, j) = "\""}) % 2 = 1

\* the commas of s that stand outside double quotes, and both ends of s
SplitPoints(s) ==
    {i \in 1..Len(s) : Ch(s, i) = "," /\ ~Quoted(s, i)} \cup {0, Len(s) + 1}

\* a set of positions as the sequence of its elements in order
InOrder(points) ==
    [k \in 1..Cardinality(points) |->
        CHOOSE p \in points : Cardinality({q \in points : q < p}) = k - 1]

\* the text between the split points k and k + 1 of the sequence pts
Segment(s, pts, k) == SubSeq(s, pts[k] + 1, pts[k + 1] - 1)

\* a segment without the double quotes around it
Unquote(seg) ==
    IF Len(seg) >= 2 /\ Ch(seg, 1) = "\"" /\ Ch(seg, Len(seg)) = "\""
    THEN SubSeq(seg, 2, Len(seg) - 1)
    ELSE seg

\* a line whose only quoting is by double quotes, one pair of which holds
\* a comma
QuotedComma(line) ==
    /\ "\"" \in Chars(line)
    /\ Chars(line) \cap {"'", "\\", "#"} = {}
    /\ HasValidStamp(line)
    /\ \E i \in 1..Len(EventSection(line)) :
           Ch(EventSection(line), i) = "," /\ Quoted(EventSection(line), i)

\* the quotes of s stand around whole fields, none of which is empty
WholeFieldsQuoted(s, pts) ==
    \A k \in 1..(Len(pts) - 1) :
        /\ Segment(s, pts, k) # ""
        /\ "\"" \notin Chars(Unquote(Segment(s, pts, k)))

\* C18: a double-quoted field of the event section that holds commas is
\* one field, its quotes removed: the fields are the texts between the
\* commas that stand outside quotes, so that every field has the index it
\* would have were there no comma inside the quotes; the record built from
\* the line holds the quoted field whole.
C18_QuotedCommaOneField ==
    (pos > 0 /\ QuotedComma(file[pos])) =>
        \E s \in {EventSection(file[pos])} :
        \E pts \in {InOrder(SplitPoints(s))} :
        \E fields \in {Fields(file[pos])} :
            WholeFieldsQuoted(s, pts) =>
                /\ Len(fields) = Len(pts) - 1
                /\ \A k \in 1..Len(fields) : fields[k] = Unquote(Segment(s, pts, k))
                /\ (Len(fields) < 7 \/ FlagsAreLiterals(file[pos])) =>
                       /\ record # None
                       /\ The(record).name = strip(Unquote(Segment(s, pts, 1)))
                /\ (Len(fields) >= 7 /\ FlagsAreLiterals(file[pos])) =>
                       /\ The(The(record).source).name = Clean(Unquote(Segment(s, pts, 3)))
                       /\ The(The(record).dest).name = Clean(Unquote(Segment(s, pts, 6)))
                       /\ Len(The(record).params) = Len(pts) - 8
                       /\ \A i \in 1..Len(The(record).params) :
                              The(record).params[i] = Clean(Unquote(Segment(s, pts, i + 7)))

\* the line with two quoted fields that hold commas was read
C18_Witness ==
    /\ pos > 0
    /\ file[pos] = QuotedCommaLine
    /\ record # None
    /\ The(The(record).source).name = "Foo, the Bar"
    /\ The(The(record).dest).guid = "Creature-2"
    /\ The(record).params = <<"7", "Fire, Ball", "0x4">>

----------------------------------------------------------------------------
(* Properties of the shipped schema tables, over SpecParser                 *)

\* the concatenated field lists of the names that resolve against the
\* shipped tables: every prefix key followed by every suffix key, and the
\* special names
ShippedSchemas ==
    {The(r.prefix_fields) \o The(r.suffix_fields) :
        r \in {x \in {Resolve("EventParamsParser", n) :
                        n \in {prefix_parsers[i].key \o suffix_parsers[j].key :
                                  i \in 1..Len(prefix_parsers),
                                  j \in 1..Len(suffix_parsers)}
                              \cup {special_parsers[i].key : i \in 1..Len(special_parsers)}} :
                  ~IsNone(x.prefix_fields) /\ ~IsNone(x.suffix_fields)}}

\* the field names of every shipped schema are pairwise distinct and none
\* is a key of the base record
ShippedNamesDistinct ==
    \A fields \in ShippedSchemas :
        /\ FirstRepeat(fields) = 0
        /\ \A i \in 1..Len(fields) : fields[i].name \notin BaseKeys

\* C19: for every event name that resolves against the shipped tables the
\* field names of prefix-part and suffix-part are pairwise distinct and
\* distinct from the base record keys, and the first parse() of an instance
\* of the shipped class never ends in the duplicate-field error, whatever
\* the params.
C19_ShippedTablesNeverCollide ==
    /\ ShippedNamesDistinct
    /\ (cls = "EventParamsParser" /\ calls = 1) => outcome # "ParsingError"

\* a first call on the shipped class decoded fields of both parts
C19_Witness ==
    /\ cls = "EventParamsParser"
    /\ calls = 1
    /\ outcome = "returned"
    /\ Len(The(frame.prefix_fields)) > 0
    /\ frame.parsed_count > Len(The(frame.prefix_fields))

\* C20: self.parsed lives as long as the instance: a parse() call made
\* after a call that decoded one schema field or more, with params that
\* are not empty, ends in the duplicate-field ParsingError at the first
\* field, decoding nothing.
C20_SingleUse ==
    [][(calls' = calls + 1 /\ Decoded # {} /\ Len(frame'.params) > 0) =>
           /\ outcome' = "ParsingError"
           /\ frame'.parsed_count = 0
           /\ DOMAIN parsed' \ BaseKeys = Decoded
           /\ \A n \in Decoded : parsed'[n] = parsed[n]]_vars

\* a second call on an instance of the shipped class, whose first call had
\* decoded fields, ended in the duplicate-field error at the first field
C20_Witness ==
    /\ cls = "EventParamsParser"
    /\ calls = 2
    /\ outcome = "ParsingError"
    /\ Len(frame.params) > 0
    /\ frame.parsed_count = 0
    /\ Decoded # {}

----------------------------------------------------------------------------
(* CombatLogEvent.from_log_line called on its own: lines with empty fields  *)

MaxFields == 9

\* the fields that the lines are written from, in order
BaseFields == <<"SWING_DAMAGE", "a", "b", "0x1", "c", "d", "0x2", "1", "2", "3", "4">>

\* the raw fields named by a mask: where the mask holds, the next base
\* field; where it does not, an empty field
RawFields(mask) ==
    [i \in 1..Len(mask) |->
        IF mask[i] THEN BaseFields[Cardinality({j \in 1..i : mask[j]})] ELSE ""]

\* ','.join(fields)
RECURSIVE Join(_)
Join(fields) ==
    IF Len(fields) = 0 THEN ""
    ELSE IF Len(fields) = 1 THEN fields[1]
    ELSE (fields[1] \o ",") \o Join(Tail(fields))

\* every line of at most MaxFields raw fields, any of them empty
EventLines ==
    {(Stamp \o Join(RawFields(mask))) \o "\n" :
        mask \in UNION {[1..n -> BOOLEAN] : n \in 1..MaxFields}}

InitLines ==
    /\ file = <<>>
    /\ pos = 0
    /\ yielded = <<>>
    /\ gen = "exhausted"
    /\ error = ""
    /\ record = None
    /\ cls = "EventParamsParser"
    /\ event = NoEvent
    /\ params = <<>>
    /\ parsed = EmptyDict
    /\ frame = NoFrame
    /\ outcome = "none"
    /\ calls = 0
    /\ value2member = DeclaredMembers
    /\ callee = ""
    /\ argument \in EventLines
    /\ retval = None
    /\ pc = <<>>
    /\ local = <<>>

\* CombatLogEvent.from_log_line(line)
CallFromLogLine ==
    /\ callee = ""
    /\ callee' = "from_log_line"
    /\ \E r \in {from_log_line(argument)} :
           retval' = [exc |-> r.exc, val |-> r.obj]
    /\ UNCHANGED <<others, value2member, argument>>

NextLines == CallFromLogLine

SpecLines == InitLines /\ [][NextLines]_vars

\* the raw fields of s that are not empty, as their indices in order
Kept(s, pts) == InOrder({k \in 1..(Len(pts) - 1) : Segment(s, pts, k) # ""})

\* the unit that the kept raw fields i, i + 1 and i + 2 describe
KeptUnit(s, pts, kept, i) ==
    Unit(Segment(s, pts, kept[i]), Segment(s, pts, kept[i + 1]),
         UnitFlagCall(The(int0w(Segment(s, pts, kept[i + 2])))))

\* C21: a run of consecutive commas is one delimiter, so no unquoted empty
\* field is produced: the field list of an event section is its raw
\* comma-separated fields without the empty ones, each later field moved
\* left by the number of empty fields before it; the record is built from
\* the fields at their new positions (name, source, dest, params), and a
\* line left with fewer than 7 fields gives the record of a short line.
\* (A line whose text ends with the timestamp has no event section.)
C21_EmptyFieldsDropped ==
    (callee = "from_log_line" /\ HasValidStamp(argument)) =>
        \E s \in {EventSection(argument)} :
        \E pts \in {InOrder(SplitPoints(s))} :
        \E kept \in {Kept(s, pts)} :
        \E fields \in {shlex_split(s).tokens} :
            /\ Len(fields) = Len(kept)
            /\ \A j \in 1..Len(fields) :
                   fields[j] # "" /\ fields[j] = Segment(s, pts, kept[j])
            /\ Len(kept) = 0 => retval.exc = "IndexError"
            /\ Len(kept) \in 1..6 =>
                   /\ retval.exc = ""
                   /\ The(retval.val).name = Segment(s, pts, kept[1])
                   /\ The(retval.val).source = None
                   /\ The(retval.val).dest = None
                   /\ The(retval.val).params = <<>>
            /\ Len(kept) >= 7 =>
                   /\ retval.exc = ""
                   /\ The(retval.val).name = Segment(s, pts, kept[1])
                   /\ The(retval.val).source = Some(KeptUnit(s, pts, kept, 2))
                   /\ The(retval.val).dest = Some(KeptUnit(s, pts, kept, 5))
                   /\ The(retval.val).params
                          = [i \in 1..(Len(kept) - 7) |-> Segment(s, pts, kept[i + 7])]

\* a line of 9 raw fields, the third and the sixth of them empty, gave a
\* full record whose actors and params come from the fields moved left
C21_Witness ==
    /\ callee = "from_log_line"
    /\ argument = Stamp \o "SWING_DAMAGE,a,,b,0x1,,c,d,0x2\n"
    /\ retval.exc = ""
    /\ The(retval.val).source = Some(Unit("a", "b", <<0, 1>>))
    /\ The(retval.val).dest = Some(Unit("c", "d", <<0, 2>>))
    /\ The(retval.val).params = <<>>

\* a line of 7 raw fields, one of them empty, gave the record of a short
\* line
C21_ShortWitness ==
    /\ callee = "from_log_line"
    /\ argument = Stamp \o "SWING_DAMAGE,a,b,0x1,,c,d\n"
    /\ retval.exc = ""
    /\ The(retval.val).source = None

----------------------------------------------------------------------------
(* Properties of the batch loop, over Spec                                  *)

\* C22: parse_combat_log_line returns no partly decoded mapping. In every
\* step that reads a non-blank line on which the call returns, either a
\* ParsingError was raised and the result is the empty mapping (nothing is
\* yielded, whatever the failed call had written to the parser's map), or
\* parse() returned and the result is the parser's map, which holds
\* 'timestamp', 'name' and every field that the zip of schema and params
\* pairs.
C22_NoPartialMapping ==
    [][(pos' = pos + 1 /\ strip(file[pos']) # "" /\ gen' = "running") =>
          IF outcome' \in ParsingErrors
          THEN yielded' = yielded
          ELSE /\ outcome' = "returned"
               /\ yielded' = Append(yielded, parsed')
               /\ Has(parsed', "timestamp")
               /\ Has(parsed', "name")
               /\ \A i \in 1..Min(Len(frame'.params),
                                  Len(The(frame'.prefix_fields))
                                      + Len(The(frame'.suffix_fields))) :
                      Has(parsed', (The(frame'.prefix_fields)
                                       \o The(frame'.suffix_fields))[i].name)]_vars

\* the line of an event without a schema was read: the lookup error came
\* after the base record was written to the parser's map, and nothing was
\* yielded
C22_Witness ==
    /\ pos = 1
    /\ file[1] = UnknownEventLine
    /\ outcome = "ParsingLookupError"
    /\ Has(parsed, "timestamp")
    /\ Has(parsed, "source")
    /\ yielded = <<>>
    /\ gen = "running"

\* what parse_combat_log_line returns for each of the first n lines of f,
\* a blank line, for which it is not called, standing as the empty mapping
LineOutputs(f, n) ==
    [i \in 1..n |->
        IF strip(f[i]) = "" THEN EmptyDict
        ELSE parse_combat_log_line(f[i], DeclaredMembers).ret]

\* C23: the batch output is an order-preserving filter of the input. As
\* long as no exception has left the generator, the records yielded are
\* the non-empty mappings that parse_combat_log_line returns for the lines
\* read so far, one for each such line and in the order of the lines;
\* blank lines and lines that ended in a ParsingError add nothing.
C23_OrderPreservingFilter ==
    gen # "raised" =>
        \E outs \in {LineOutputs(file, pos)} :
        \E kept \in {InOrder({i \in 1..pos : outs[i] # EmptyDict})} :
            /\ Len(yielded) = Len(kept)
            /\ \A j \in 1..Len(kept) : yielded[j] = outs[kept[j]]

\* a file of two lines was read to its end: both records were yielded, the
\* record of the first line first
C23_Witness ==
    /\ gen = "exhausted"
    /\ Len(file) = 2
    /\ file[1] = LeftoverLine
    /\ file[2] = ScenarioLine
    /\ Len(yielded) = 2
    /\ yielded[1]["name"] = StrValue("SWING_DAMAGE")
    /\ yielded[2]["name"] = StrValue("SPELL_DAMAGE")

\* a file of a line that ended in a ParsingError and a line that parses
\* was read to its end: one record was yielded
C23_FilterWitness ==
    /\ gen = "exhausted"
    /\ Len(file) = 2
    /\ file[1] = UnknownEventLine
    /\ file[2] = LeftoverLine
    /\ Len(yielded) = 1
    /\ yielded[1]["name"] = StrValue("SWING_DAMAGE")

====
